---- MODULE Spec2Model ----
(***************************************************************************)
(* A model of the lotto statistics engine (src/src/analyze_statistics.py,  *)
(* src/src/pension_statistics.py) and of the per-draw analysis of the      *)
(* crawler (src/src/crawler.py).                                           *)
(*                                                                         *)
(* JSON objects are records; the field keys of a draw record is the set of *)
(* its optional keys that are present.  Lists are sequences.  A string the *)
(* code splits or matches by prefix is a sequence of characters.           *)
(***************************************************************************)
EXTENDS Integers, Sequences, FiniteSets, TLC

VARIABLES
    program,             \* what this state belongs to: the script "lotto" or "pension",
                         \* a call of the "crawler", a call of the "patterns" analyzers
    draw_files,          \* <game>/draws/<game>_<n>.json : file number -> record
    stores_data,         \* lotto/lotto_stores.json : store id -> record
    now,                 \* the clock datetime.now() reads
    pc,                  \* position of generate_statistics / save_statistics
    runs,                \* the runs of the script that have ended
    draw_data_list,      \* the list load_all_draw_data returned
    frequency_stats,     \* result of analyze_number_frequency
    store_stats,         \* result of analyze_store_statistics
    sum_and_avg_stats,   \* result of analyze_sum_and_average
    sorted_draws,        \* analyze_dormant_periods: sorted(draw_data_list)
    latest_draw_no,      \* analyze_dormant_periods: latest_draw_no
    idx,                 \* analyze_dormant_periods: position of the loop
    last_appearance,     \* analyze_dormant_periods: last_appearance
    dormant_periods,     \* analyze_dormant_periods: dormant_periods
    dormant_stats,       \* result of analyze_dormant_periods
    auto_manual_ratio_stats, \* result of analyze_auto_manual_ratio
    regional_stats,      \* result of analyze_regional_stats
    statistics,          \* what generate_statistics returned
    previous_statistics, \* what generate_statistics returned in the run before
    statistics_file,     \* <game>/statistics.json
    save_returned,       \* what save_statistics returned
    call                 \* the crawler's analysis call: function, arguments, result

inputs == <<program, draw_files, stores_data>>

dormant_locals == <<sorted_draws, latest_draw_no, idx, last_appearance, dormant_periods>>

results == <<frequency_stats, store_stats, sum_and_avg_stats, dormant_stats,
             auto_manual_ratio_stats, regional_stats>>

outcome == <<statistics, previous_statistics, statistics_file, save_returned>>

vars == <<inputs, now, pc, runs, draw_data_list, dormant_locals, results, outcome, call>>

\* a variable that holds no value yet, and Python's None as a return value
NoValue == [kind |-> "unset"]
None == [kind |-> "None"]

-----------------------------------------------------------------------------
(* Bounds of the model *)

\* draw files are numbered 1..MaxDrawNo
MaxDrawNo == 3
\* at most MaxDraws draw files exist
MaxDraws == 3
\* the script is run at most MaxRuns times on the same files
MaxRuns == 2
\* the clock shows 0..MaxClock
MaxClock == 2

-----------------------------------------------------------------------------
(* Helpers for Python built-ins *)

\* a list given position by position, as a list value
List(f) == f \o <<>>

RECURSIVE SeqSum(_)
\* sum(list)
SeqSum(s) == IF s = <<>> THEN 0 ELSE Head(s) + SeqSum(Tail(s))

\* x in list
InList(x, s) == \E i \in DOMAIN s : s[i] = x

\* the number of positions of list s that hold x
Count(x, s) == Cardinality({i \in DOMAIN s : s[i] = x})

\* max(list) of a non-empty list of integers
SeqMax(s) == CHOOSE m \in {s[i] : i \in DOMAIN s} : \A i \in DOMAIN s : s[i] <= m

\* sorted(seq, key=...) and list.sort(key=..., reverse=True): Python's sort is
\* stable in both directions, so the element at position i comes before the
\* one at position j iff its key is strictly better, or equal with i < j.
\* key is the list of the elements' keys, position by position.
StableSort(seq, key, reverse) ==
    LET n == Len(seq)
        s == List(seq)
        k == List(key)
        better(a, b) == IF reverse THEN a > b ELSE a < b
        rank == List([i \in 1..n |->
                   1 + Cardinality({j \in 1..n :
                          better(k[j], k[i]) \/ (k[j] = k[i] /\ j < i)})])
    IN  List([r \in 1..n |-> s[CHOOSE i \in 1..n : rank[i] = r]])

\* round(num / den) for integers num >= 0, den > 0: to the nearest integer,
\* an exact tie to the even neighbour
RoundHalfEven(num, den) ==
    LET q == num \div den
        r == num % den
    IN  IF 2 * r > den THEN q + 1
        ELSE IF 2 * r < den THEN q
        ELSE IF q % 2 = 0 THEN q ELSE q + 1

\* round(num / den, 2), in hundredths
RoundHundredths(num, den) == RoundHalfEven(100 * num, den)

\* round(num / den, 1), in tenths
RoundTenths(num, den) == RoundHalfEven(10 * num, den)

\* min(list) of a non-empty list of integers
SeqMin(s) == CHOOSE m \in {s[i] : i \in DOMAIN s} : \A i \in DOMAIN s : m <= s[i]

\* the set of the elements of a list
Range(s) == {s[i] : i \in DOMAIN s}

\* list[:n]
Take(s, n) == SubSeq(s, 1, IF Len(s) < n THEN Len(s) ELSE n)

-----------------------------------------------------------------------------
(* load_all_draw_data *)

\* the keys of a finite set of integers in ascending order
RECURSIVE Ascending(_)
Ascending(S) ==
    IF S = {} THEN <<>>
    ELSE LET m == CHOOSE x \in S : \A y \in S : x <= y
         IN  <<m>> \o Ascending(S \ {m})

\* 'key' in data
Has(data, key) == key \in data.keys

\* the defaults load_all_draw_data sets for absent keys
WithDefaults(data) ==
    [data EXCEPT !.numbers = IF Has(data, "numbers") THEN @ ELSE <<>>,
                 !.bonus_number = IF Has(data, "bonus_number") THEN @ ELSE 0,
                 !.keys = @ \cup {"numbers", "bonus_number"}]

\* every file of the directory, with defaults, sorted by draw_no; the file
\* lotto_<n>.json holds the record of draw n (save_draw_data names it so)
load_all_draw_data(files) ==
    LET keys == Ascending(DOMAIN files)
        all_data == [i \in 1..Len(keys) |-> WithDefaults(files[keys[i]])]
    IN  StableSort(all_data, [i \in 1..Len(keys) |-> all_data[i].draw_no], FALSE)

-----------------------------------------------------------------------------
(* analyze_number_frequency *)

FrequencyRange_Short == 1..44
\* for num in range(1, 46)
FrequencyRange == 1..45

\* regular_counter: occurrences of num among the 'numbers' of all draws
regular_counter(list, num) ==
    SeqSum([i \in 1..Len(list) |-> Count(num, list[i].numbers)])

\* bonus_counter: draws whose bonus_number is num
bonus_counter(list, num) ==
    Cardinality({i \in 1..Len(list) : list[i].bonus_number = num})

\* one entry of all_numbers_frequency; the percentages are in hundredths of
\* a percent (round(x, 2) * 100)
frequency_entry(list, num) ==
    LET regular_freq == regular_counter(list, num)
        bonus_freq   == bonus_counter(list, num)
        total_freq   == regular_freq + bonus_freq
        total_draws  == Len(list)
    IN  [number |-> num,
         frequency |-> total_freq,
         regular_frequency |-> regular_freq,
         bonus_frequency |-> bonus_freq,
         percentage |-> IF total_draws > 0
                        THEN RoundHundredths(total_freq * 100, total_draws * 7) ELSE 0,
         regular_percentage |-> IF total_draws > 0
                        THEN RoundHundredths(regular_freq * 100, total_draws * 6) ELSE 0,
         bonus_percentage |-> IF total_draws > 0
                        THEN RoundHundredths(bonus_freq * 100, total_draws) ELSE 0]

analyze_number_frequency(list) ==
    LET nums == Ascending(FrequencyRange)
        unsorted == List([i \in 1..Len(nums) |-> frequency_entry(list, nums[i])])
        all_numbers_frequency ==
            StableSort(unsorted, [i \in DOMAIN unsorted |-> unsorted[i].frequency], TRUE)
        n == Len(all_numbers_frequency)
    IN  [all_numbers_frequency |-> all_numbers_frequency,
         regular_frequency |->
            StableSort(all_numbers_frequency,
                       [i \in 1..n |-> all_numbers_frequency[i].regular_frequency], TRUE),
         bonus_frequency |->
            StableSort(all_numbers_frequency,
                       [i \in 1..n |-> all_numbers_frequency[i].bonus_frequency], TRUE),
         most_frequent_numbers |-> Take(all_numbers_frequency, 5),
         least_frequent_numbers |->
            SubSeq(all_numbers_frequency, IF n < 5 THEN 1 ELSE n - 4, n)]

-----------------------------------------------------------------------------
(* analyze_dormant_periods *)

\* all_numbers = list(range(1, 46))
all_numbers == 1..45

\* recent_draws = sorted_draws[-10:]
RecentDraws == 10

\* sorted(draw_data_list, key=lambda x: x['draw_no'])
draws_as_given(list) == list
\* sorted(draw_data_list, key=lambda x: x['draw_no'])
sort_by_draw_no(list) ==
    StableSort(list, [i \in 1..Len(list) |-> list[i].draw_no], FALSE)

latest_draw_no_first(sorted) ==
    IF sorted # <<>> THEN sorted[1].draw_no ELSE 0
\* sorted_draws[-1]['draw_no'] if sorted_draws else 0
latest_draw_no_of(sorted) ==
    IF sorted # <<>> THEN sorted[Len(sorted)].draw_no ELSE 0

step_dormant_periods_positive_only(periods, last, draw) ==
    [num \in all_numbers |->
        IF InList(num, draw.numbers) /\ last[num] > 0 /\ draw.draw_no - last[num] - 1 > 0
        THEN Append(periods[num], draw.draw_no - last[num] - 1)
        ELSE periods[num]]
\* the loop over all_numbers for one draw: dormant_periods afterwards
step_dormant_periods(periods, last, draw) ==
    [num \in all_numbers |->
        IF InList(num, draw.numbers) /\ last[num] > 0
        THEN Append(periods[num], draw.draw_no - last[num] - 1)
        ELSE periods[num]]

step_last_appearance_keep_first(last, draw) ==
    [num \in all_numbers |->
        IF InList(num, draw.numbers) /\ last[num] = 0 THEN draw.draw_no ELSE last[num]]
\* the loop over all_numbers for one draw: last_appearance afterwards
step_last_appearance(last, draw) ==
    [num \in all_numbers |->
        IF InList(num, draw.numbers) THEN draw.draw_no ELSE last[num]]

current_dormant_unseen_zero(latest, last) ==
    [num \in all_numbers |-> IF last[num] > 0 THEN latest - last[num] ELSE 0]
\* current_dormant
current_dormant_of(latest, last) ==
    [num \in all_numbers |-> IF last[num] > 0 THEN latest - last[num] ELSE latest]

\* one entry of dormant_stats; avg_dormant is in hundredths (round(x, 2) * 100)
dormant_entry(num, latest, last, periods) ==
    [number |-> num,
     current_dormant |-> current_dormant_of(latest, last)[num],
     avg_dormant |-> IF periods[num] # <<>>
                     THEN RoundHundredths(SeqSum(periods[num]), Len(periods[num])) ELSE 0,
     max_dormant |-> IF periods[num] # <<>> THEN SeqMax(periods[num]) ELSE 0,
     appearance_count |-> Len(periods[num]) + (IF last[num] > 0 THEN 1 ELSE 0)]

recent_draws_all(sorted) == sorted
\* sorted_draws[-10:] if len(sorted_draws) >= 10 else sorted_draws
recent_draws_of(sorted) ==
    IF Len(sorted) >= RecentDraws
    THEN SubSeq(sorted, Len(sorted) - RecentDraws + 1, Len(sorted))
    ELSE sorted

\* what analyze_dormant_periods returns once its loop is over
dormant_result(sorted, latest, last, periods) ==
    LET nums == Ascending(all_numbers)
        stats == List([i \in 1..Len(nums) |-> dormant_entry(nums[i], latest, last, periods)])
        by_current == StableSort(stats, [i \in DOMAIN stats |-> stats[i].current_dormant], TRUE)
        by_avg == StableSort(stats, [i \in DOMAIN stats |-> stats[i].avg_dormant], TRUE)
        recent_draws == recent_draws_of(sorted)
        recent_numbers == UNION {{recent_draws[i].numbers[j] :
                                    j \in DOMAIN recent_draws[i].numbers} :
                                 i \in DOMAIN recent_draws}
    IN  [top_dormant_current |-> Take(by_current, 10),
         top_dormant_avg |-> Take(by_avg, 10),
         not_in_recent_10 |-> Ascending(all_numbers \ recent_numbers),
         overall_stats |-> stats]

-----------------------------------------------------------------------------
(* Strings the code splits or matches by prefix: sequences of characters. *)
(* A Hangul syllable is one character, written here by its romanisation.  *)

\* ' '
SPACE == " "

\* '알 수 없음'
UNKNOWN == <<"al", SPACE, "su", SPACE, "eobs", "eum">>

\* '기타'
ETC == <<"gi", "ta">>

\* the purchase-method tags '자동', '수동', '반자동' and the default '알 수 없음'
AUTO == "auto"
MANUAL == "manual"
SEMI == "semi"
UNKNOWN_TYPE == "unknown"

\* address.split(' ')[0]
first_token(address) ==
    LET spaces == {i \in DOMAIN address : address[i] = SPACE}
    IN  IF spaces = {} THEN address
        ELSE SubSeq(address, 1, (CHOOSE i \in spaces : \A j \in spaces : i <= j) - 1)

\* address.startswith(r)
startswith(address, r) ==
    Len(r) <= Len(address) /\ SubSeq(address, 1, Len(r)) = r

\* the keys of a Counter or dict in insertion order: the distinct items of a
\* list in the order of their first occurrence
first_seen(items) ==
    LET firsts == {i \in DOMAIN items : \A j \in 1..(i - 1) : items[j] # items[i]}
        order == Ascending(firsts)
    IN  [k \in 1..Len(order) |-> items[order[k]]]

\* Counter.most_common() and sorted(counter.items(), key=count, reverse=True):
\* the keys by count, descending, equal counts in insertion order
most_common(items) ==
    LET keys == first_seen(items)
    IN  StableSort(keys, [k \in DOMAIN keys |-> Count(keys[k], items)], TRUE)

-----------------------------------------------------------------------------
(* analyze_store_statistics *)

\* store_ids of one draw
store_ids_of(draw) ==
    IF Has(draw, "first_prize_store_info")
    THEN [i \in DOMAIN draw.first_prize_store_info |-> draw.first_prize_store_info[i].store_id]
    ELSE IF Has(draw, "first_prize_store_ids") THEN draw.first_prize_store_ids
    ELSE <<>>

\* store_types.get(store_id, '알 수 없음'): a later entry of the same store
\* overwrites an earlier one
store_type_of(draw, store_id) ==
    IF Has(draw, "first_prize_store_info")
       /\ \E i \in DOMAIN draw.first_prize_store_info :
              draw.first_prize_store_info[i].store_id = store_id
    THEN LET hits == {i \in DOMAIN draw.first_prize_store_info :
                         draw.first_prize_store_info[i].store_id = store_id}
             last == CHOOSE i \in hits : \A j \in hits : j <= i
         IN  draw.first_prize_store_info[last].type
    ELSE UNKNOWN_TYPE

RECURSIVE all_wins(_)
\* the winning entries of all draws, draw by draw, in list order
all_wins(list) ==
    IF list = <<>> THEN <<>>
    ELSE LET draw == Head(list)
             ids == store_ids_of(draw)
         IN  [i \in DOMAIN ids |-> [store_id |-> ids[i],
                                    type |-> store_type_of(draw, ids[i]),
                                    draw_no |-> draw.draw_no]]
             \o all_wins(Tail(list))

\* if store_id in stores_data
resolved_wins(list, stores) ==
    SelectSeq(all_wins(list), LAMBDA w : w.store_id \in DOMAIN stores)

\* the address None of an outlet saved without 'shpAddr' (a JSON null)
NULL_ADDRESS == <<"None">>

store_region_no_fallback(store) == first_token(store.address)
\* region = address.split(' ')[0] if address else '알 수 없음'
store_region(store) ==
    IF store.address # <<>> /\ store.address # NULL_ADDRESS
    THEN first_token(store.address)
    ELSE UNKNOWN

\* a list of (key, count, percentage) in most_common order; percentage in
\* hundredths of a percent
counter_stats(items) ==
    LET keys == most_common(items)
    IN  [k \in DOMAIN keys |->
            [key |-> keys[k],
             count |-> Count(keys[k], items),
             percentage |-> RoundHundredths(Count(keys[k], items) * 100, Len(items))]]

analyze_store_statistics(list, stores) ==
    LET wins == resolved_wins(list, stores)
        regions == [i \in DOMAIN wins |-> store_region(stores[wins[i].store_id])]
        names == [i \in DOMAIN wins |-> stores[wins[i].store_id].name]
        types == [i \in DOMAIN wins |-> wins[i].type]
        by_store == counter_stats(names)
    IN  [region_stats |-> counter_stats(regions),
         top_stores |-> Take(by_store, 10),
         type_stats |-> counter_stats(types)]

-----------------------------------------------------------------------------
(* analyze_regional_stats *)

\* the keys of the dict regions, in the order they are declared
REGIONS ==
    << <<"seo", "ul">>, <<"gyeong", "gi">>, <<"in", "cheon">>, <<"gang", "won">>,
       <<"chung", "buk">>, <<"chung", "nam">>, <<"dae", "jeon">>, <<"se", "jong">>,
       <<"gyeong", "buk">>, <<"gyeong", "nam">>, <<"dae", "gu">>, <<"ul", "san">>,
       <<"bu", "san">>, <<"jeon", "buk">>, <<"jeon", "nam">>, <<"gwang", "ju">>,
       <<"je", "ju">>, ETC >>

\* region = '기타'; for r in regions.keys(): if address.startswith(r): region = r; break
region_of(address) ==
    LET hits == {i \in DOMAIN REGIONS : startswith(address, REGIONS[i])}
    IN  IF hits = {} THEN ETC
        ELSE REGIONS[CHOOSE i \in hits : \A j \in hits : i <= j]

\* the store_info entries appended to region_stores[region], in order, an
\* entry equal to one already in the list not appended again
region_stores_of(wins, stores, region) ==
    LET infos == [i \in DOMAIN wins |->
                    [store_id |-> wins[i].store_id,
                     name |-> stores[wins[i].store_id].name,
                     address |-> stores[wins[i].store_id].address,
                     draw_no |-> wins[i].draw_no]]
    IN  first_seen(SelectSeq(infos, LAMBDA x : region_of(x.address) = region))

\* top_stores_by_region[region]
top_stores_of(region_stores) ==
    LET keys == [i \in DOMAIN region_stores |->
                    <<region_stores[i].store_id, region_stores[i].name>>]
        top == Take(most_common(keys), 5)
    IN  [k \in DOMAIN top |->
            [store_id |-> top[k][1], name |-> top[k][2], wins |-> Count(top[k], keys)]]

\* address.startswith(r) raises AttributeError when the address of a resolved
\* outlet is None
regional_stats_raises(list, stores) ==
    \E k \in DOMAIN resolved_wins(list, stores) :
        stores[resolved_wins(list, stores)[k].store_id].address = NULL_ADDRESS

\* analyze_regional_stats, when it does not raise
analyze_regional_stats(list, stores) ==
    LET wins == all_wins(list)
        total_wins == Len(wins)
        resolved == SelectSeq(wins, LAMBDA w : w.store_id \in DOMAIN stores)
        region_counts == [i \in DOMAIN REGIONS |->
            Cardinality({k \in DOMAIN resolved :
                            region_of(stores[resolved[k].store_id].address) = REGIONS[i]})]
        by_count == StableSort(REGIONS, region_counts, TRUE)
        counts_sorted == StableSort(region_counts, region_counts, TRUE)
        listed == {i \in DOMAIN by_count : counts_sorted[i] > 0}
        region_stats_sorted ==
            [i \in 1..Cardinality(listed) |->
                [region |-> by_count[i],
                 wins |-> counts_sorted[i],
                 percentage |-> IF total_wins > 0
                                THEN RoundHundredths(counts_sorted[i] * 100, total_wins)
                                ELSE 0]]
        with_stores == {i \in DOMAIN REGIONS : region_counts[i] > 0}
    IN  [total_wins |-> total_wins,
         region_stats |-> region_stats_sorted,
         top_regions |-> Take(region_stats_sorted, 5),
         top_stores_by_region |->
            [i \in with_stores |-> top_stores_of(region_stores_of(resolved, stores, REGIONS[i]))]]

-----------------------------------------------------------------------------
(* analyze_sum_and_average *)

\* the keys of sum_ranges in the order they are declared; the last is '기타'
SUM_RANGES == <<"70-90", "91-110", "111-130", "131-150", "151-170", "171-190",
                "191-210", "211-230", "etc">>

sum_range_of_open_ended(numbers_sum) ==
    IF numbers_sum <= 90 THEN "70-90"
    ELSE IF numbers_sum >= 211 THEN "211-230"
    ELSE SUM_RANGES[(numbers_sum - 71) \div 20 + 1]
\* the key of sum_ranges that a sum is counted in
sum_range_of(numbers_sum) ==
    IF 70 <= numbers_sum /\ numbers_sum <= 90 THEN "70-90"
    ELSE IF 91 <= numbers_sum /\ numbers_sum <= 110 THEN "91-110"
    ELSE IF 111 <= numbers_sum /\ numbers_sum <= 130 THEN "111-130"
    ELSE IF 131 <= numbers_sum /\ numbers_sum <= 150 THEN "131-150"
    ELSE IF 151 <= numbers_sum /\ numbers_sum <= 170 THEN "151-170"
    ELSE IF 171 <= numbers_sum /\ numbers_sum <= 190 THEN "171-190"
    ELSE IF 191 <= numbers_sum /\ numbers_sum <= 210 THEN "191-210"
    ELSE IF 211 <= numbers_sum /\ numbers_sum <= 230 THEN "211-230"
    ELSE "etc"

\* numbers_sum / len(numbers) raises ZeroDivisionError for an empty list
sum_and_average_raises(list) ==
    \E i \in DOMAIN list : Len(list[i].numbers) = 0

\* the result when no draw has an empty 'numbers'; averages are in tenths,
\* percentages and overall_avg_sum in hundredths
analyze_sum_and_average(list) ==
    LET total_draws == Len(list)
        all_sums == [i \in DOMAIN list |-> SeqSum(list[i].numbers)]
        all_avgs == [i \in DOMAIN list |-> RoundTenths(all_sums[i], Len(list[i].numbers))]
        ranges == [i \in DOMAIN list |-> sum_range_of(all_sums[i])]
        occupied == SelectSeq(SUM_RANGES, LAMBDA name : Count(name, ranges) > 0)
    IN  [sum_distribution |->
            [k \in DOMAIN occupied |->
                [range |-> occupied[k],
                 count |-> Count(occupied[k], ranges),
                 percentage |-> RoundHundredths(Count(occupied[k], ranges) * 100, total_draws)]],
         most_common_sums |-> Take(counter_stats(all_sums), 10),
         most_common_avgs |-> Take(counter_stats(all_avgs), 10),
         overall_avg_sum |-> IF total_draws > 0
                             THEN RoundHundredths(SeqSum(all_sums), total_draws) ELSE 0,
         min_sum |-> IF total_draws > 0 THEN SeqMin(all_sums) ELSE 0,
         max_sum |-> IF total_draws > 0 THEN SeqMax(all_sums) ELSE 0]

-----------------------------------------------------------------------------
(* analyze_auto_manual_ratio *)

\* the winners of one draw whose type is the given tag
type_count(draw, tag) ==
    Cardinality({i \in DOMAIN draw.first_prize_store_info :
                    draw.first_prize_store_info[i].type = tag})

\* the draws a draw_ratios entry is appended for
has_ratio(draw) ==
    /\ Has(draw, "first_prize_store_info")
    /\ type_count(draw, AUTO) + type_count(draw, MANUAL) > 0

\* draw_data['draw_date'] raises KeyError when the key is absent
auto_manual_ratio_raises(list) ==
    \E i \in DOMAIN list : has_ratio(list[i]) /\ ~Has(list[i], "draw_date")

\* the result when no draw_date is missing; percentages in hundredths
analyze_auto_manual_ratio(list) ==
    LET with_info == SelectSeq(list, LAMBDA d : Has(d, "first_prize_store_info"))
        rated == SelectSeq(list, has_ratio)
        draw_ratios ==
            [i \in DOMAIN rated |->
                LET a == type_count(rated[i], AUTO)
                    m == type_count(rated[i], MANUAL)
                IN  [draw_no |-> rated[i].draw_no,
                     draw_date |-> rated[i].draw_date,
                     auto_count |-> a,
                     manual_count |-> m,
                     auto_percentage |-> RoundHundredths(a * 100, a + m),
                     manual_percentage |-> RoundHundredths(m * 100, a + m)]]
        auto_count == SeqSum([i \in DOMAIN with_info |-> type_count(with_info[i], AUTO)])
        manual_count == SeqSum([i \in DOMAIN with_info |-> type_count(with_info[i], MANUAL)])
        total_winners == auto_count + manual_count
    IN  [total_stats |->
            [auto_count |-> auto_count,
             manual_count |-> manual_count,
             auto_percentage |-> IF total_winners > 0
                                 THEN RoundHundredths(auto_count * 100, total_winners) ELSE 0,
             manual_percentage |-> IF total_winners > 0
                                   THEN RoundHundredths(manual_count * 100, total_winners) ELSE 0,
             total_winners |-> total_winners],
         draws_with_type_info |-> Len(with_info),
         recent_ratios |->
            Take(StableSort(draw_ratios, [i \in DOMAIN draw_ratios |-> draw_ratios[i].draw_no],
                            TRUE), 10),
         highest_auto_ratio |->
            Take(StableSort(draw_ratios,
                            [i \in DOMAIN draw_ratios |-> draw_ratios[i].auto_percentage],
                            TRUE), 5),
         highest_manual_ratio |->
            Take(StableSort(draw_ratios,
                            [i \in DOMAIN draw_ratios |-> draw_ratios[i].manual_percentage],
                            TRUE), 5)]

-----------------------------------------------------------------------------
(* The lotto statistics script: generate_statistics, step by step, and      *)
(* save_statistics.  The analyzers between analyze_number_frequency and     *)
(* analyze_regional_stats that are not listed here (number patterns,        *)
(* consecutive numbers, number gaps) read draw_data_list only and raise on  *)
(* none of the records below.                                               *)

\* the report generate_statistics assembles
report_of(list, frequency, store, sum_and_avg, dormant, auto_manual, regional) ==
    [kind |-> "report",
     total_draws |-> Len(list),
     first_draw |-> list[1].draw_no,
     last_draw |-> list[Len(list)].draw_no,
     frequency_stats |-> frequency,
     store_stats |-> store,
     sum_and_avg_stats |-> sum_and_avg,
     dormant_stats |-> dormant,
     auto_manual_ratio_stats |-> auto_manual,
     regional_stats |-> regional,
     updated_at |-> list[Len(list)].updated_at]

\* crawler.save_draw_data: the record of a draw is written to its file
SaveDrawData(d) ==
    /\ program = "lotto"
    /\ pc = "idle"
    /\ runs = 0
    /\ Cardinality(DOMAIN draw_files \cup {d.draw_no}) <= MaxDraws
    /\ draw_files' = [k \in DOMAIN draw_files \cup {d.draw_no} |->
                         IF k = d.draw_no THEN d ELSE draw_files[k]]
    /\ UNCHANGED <<call, program, stores_data, now, pc, runs, draw_data_list, dormant_locals,
                   results, outcome>>

\* draw_data_list = self.load_all_draw_data(); if not draw_data_list: return None
LoadAllDrawData ==
    /\ program = "lotto"
    /\ pc = "idle"
    /\ draw_data_list' = load_all_draw_data(draw_files)
    /\ IF draw_data_list' = <<>>
       THEN pc' = "returned" /\ statistics' = None
       ELSE pc' = "frequency" /\ statistics' = NoValue
    /\ UNCHANGED <<call, inputs, now, runs, dormant_locals, results, previous_statistics,
                   statistics_file, save_returned>>

AnalyzeNumberFrequency ==
    /\ pc = "frequency"
    /\ frequency_stats' = analyze_number_frequency(draw_data_list)
    /\ pc' = "store"
    /\ UNCHANGED <<call, inputs, now, runs, draw_data_list, dormant_locals, store_stats,
                   sum_and_avg_stats, dormant_stats, auto_manual_ratio_stats,
                   regional_stats, outcome>>

AnalyzeStoreStatistics ==
    /\ pc = "store"
    /\ store_stats' = analyze_store_statistics(draw_data_list, stores_data)
    /\ pc' = "sum_and_avg"
    /\ UNCHANGED <<call, inputs, now, runs, draw_data_list, dormant_locals, frequency_stats,
                   sum_and_avg_stats, dormant_stats, auto_manual_ratio_stats,
                   regional_stats, outcome>>

AnalyzeSumAndAverage ==
    /\ pc = "sum_and_avg"
    /\ IF sum_and_average_raises(draw_data_list)
       THEN pc' = "raised" /\ UNCHANGED sum_and_avg_stats
       ELSE /\ sum_and_avg_stats' = analyze_sum_and_average(draw_data_list)
            /\ pc' = "dormant"
    /\ UNCHANGED <<call, inputs, now, runs, draw_data_list, dormant_locals, frequency_stats,
                   store_stats, dormant_stats, auto_manual_ratio_stats, regional_stats,
                   outcome>>

\* analyze_dormant_periods up to its loop
DormantBegin ==
    /\ pc = "dormant"
    /\ sorted_draws' = sort_by_draw_no(draw_data_list)
    /\ latest_draw_no' = latest_draw_no_of(sorted_draws')
    /\ last_appearance' = [num \in all_numbers |-> 0]
    /\ dormant_periods' = [num \in all_numbers |-> <<>>]
    /\ idx' = 1
    /\ pc' = "dormant_loop"
    /\ UNCHANGED <<call, inputs, now, runs, draw_data_list, results, outcome>>

\* one pass of "for draw_data in sorted_draws"
DormantStep ==
    /\ pc = "dormant_loop"
    /\ idx <= Len(sorted_draws)
    /\ dormant_periods' = step_dormant_periods(dormant_periods, last_appearance,
                                               sorted_draws[idx])
    /\ last_appearance' = step_last_appearance(last_appearance, sorted_draws[idx])
    /\ idx' = idx + 1
    /\ UNCHANGED <<call, inputs, now, pc, runs, draw_data_list, sorted_draws, latest_draw_no,
                   results, outcome>>

\* analyze_dormant_periods after its loop
DormantEnd ==
    /\ pc = "dormant_loop"
    /\ idx > Len(sorted_draws)
    /\ dormant_stats' = dormant_result(sorted_draws, latest_draw_no, last_appearance,
                                       dormant_periods)
    /\ pc' = "auto_manual"
    /\ UNCHANGED <<call, inputs, now, runs, draw_data_list, dormant_locals, frequency_stats,
                   store_stats, sum_and_avg_stats, auto_manual_ratio_stats,
                   regional_stats, outcome>>

AnalyzeAutoManualRatio ==
    /\ pc = "auto_manual"
    /\ IF auto_manual_ratio_raises(draw_data_list)
       THEN pc' = "raised" /\ UNCHANGED auto_manual_ratio_stats
       ELSE /\ auto_manual_ratio_stats' = analyze_auto_manual_ratio(draw_data_list)
            /\ pc' = "regional"
    /\ UNCHANGED <<call, inputs, now, runs, draw_data_list, dormant_locals, frequency_stats,
                   store_stats, sum_and_avg_stats, dormant_stats, regional_stats, outcome>>

AnalyzeRegionalStats ==
    /\ pc = "regional"
    /\ IF regional_stats_raises(draw_data_list, stores_data)
       THEN pc' = "raised" /\ UNCHANGED regional_stats
       ELSE /\ regional_stats' = analyze_regional_stats(draw_data_list, stores_data)
            /\ pc' = "assemble"
    /\ UNCHANGED <<call, inputs, now, runs, draw_data_list, dormant_locals, frequency_stats,
                   store_stats, sum_and_avg_stats, dormant_stats,
                   auto_manual_ratio_stats, outcome>>

\* statistics = {...}; return statistics.  draw_data_list[-1]['updated_at']
\* raises KeyError when the key is absent
Assemble ==
    /\ pc = "assemble"
    /\ IF Has(draw_data_list[Len(draw_data_list)], "updated_at")
       THEN /\ statistics' = report_of(draw_data_list, frequency_stats, store_stats,
                                       sum_and_avg_stats, dormant_stats,
                                       auto_manual_ratio_stats, regional_stats)
            /\ pc' = "returned"
       ELSE pc' = "raised" /\ UNCHANGED statistics
    /\ UNCHANGED <<call, inputs, now, runs, draw_data_list, dormant_locals, results,
                   previous_statistics, statistics_file, save_returned>>

SaveStatistics_NoCheck ==
    /\ pc = "returned"
    /\ \E written \in BOOLEAN :
          /\ save_returned' = written
          /\ statistics_file' = IF written THEN statistics ELSE statistics_file
    /\ pc' = "saved"
    /\ UNCHANGED <<call, inputs, now, runs, draw_data_list, dormant_locals, results,
                   statistics, previous_statistics>>
\* save_statistics(statistics): nothing is written for None; otherwise the
\* file is written, unless open or json.dump fails (written = FALSE)
SaveStatistics ==
    /\ pc = "returned"
    /\ \E written \in BOOLEAN :
          IF statistics = None
          THEN save_returned' = FALSE /\ UNCHANGED statistics_file
          ELSE /\ save_returned' = written
               /\ statistics_file' = IF written THEN statistics ELSE statistics_file
    /\ pc' = "saved"
    /\ UNCHANGED <<call, inputs, now, runs, draw_data_list, dormant_locals, results,
                   statistics, previous_statistics>>

\* the script ends, and is started again on the same files
RunAgain ==
    /\ pc \in {"saved", "raised"}
    /\ runs + 1 < MaxRuns
    /\ runs' = runs + 1
    /\ previous_statistics' = IF pc = "saved" THEN statistics ELSE NoValue
    /\ pc' = "idle"
    /\ draw_data_list' = <<>>
    /\ statistics' = NoValue
    /\ save_returned' = NoValue
    /\ frequency_stats' = NoValue
    /\ store_stats' = NoValue
    /\ sum_and_avg_stats' = NoValue
    /\ dormant_stats' = NoValue
    /\ auto_manual_ratio_stats' = NoValue
    /\ regional_stats' = NoValue
    /\ sorted_draws' = <<>>
    /\ latest_draw_no' = 0
    /\ idx' = 0
    /\ last_appearance' = <<>>
    /\ dormant_periods' = <<>>
    /\ UNCHANGED <<call, inputs, now, statistics_file>>

-----------------------------------------------------------------------------
(* The records of the lotto draws *)

\* the record crawl_draw returns for draw n (updated_at: the time of the crawl)
CrawledDraw(n, numbers, bonus, store_info) ==
    [draw_no |-> n,
     draw_date |-> n,
     numbers |-> numbers,
     bonus_number |-> bonus,
     first_prize_store_info |-> store_info,
     first_prize_store_ids |-> <<>>,
     updated_at |-> n,
     keys |-> {"numbers", "bonus_number", "draw_date", "first_prize_store_info",
               "updated_at"}]

\* the numbers the draws of Spec are made of
NumberPool == {1, 2, 4, 16, 20, 32, 45}

\* the draws of Spec: six different numbers of the pool, in ascending order,
\* and the seventh as the bonus number
HistoryDraws ==
    {CrawledDraw(n, Ascending(NumberPool \ {b}), b, <<>>) :
        n \in 1..MaxDrawNo, b \in NumberPool}

InitCommon ==
    /\ call = NoValue
    /\ draw_files = <<>>
    /\ now = 0
    /\ pc = "idle"
    /\ runs = 0
    /\ draw_data_list = <<>>
    /\ frequency_stats = NoValue
    /\ store_stats = NoValue
    /\ sum_and_avg_stats = NoValue
    /\ sorted_draws = <<>>
    /\ latest_draw_no = 0
    /\ idx = 0
    /\ last_appearance = <<>>
    /\ dormant_periods = <<>>
    /\ dormant_stats = NoValue
    /\ auto_manual_ratio_stats = NoValue
    /\ regional_stats = NoValue
    /\ statistics = NoValue
    /\ previous_statistics = NoValue
    /\ statistics_file = NoValue
    /\ save_returned = NoValue

\* no draw has been crawled yet, and lotto_stores.json does not exist
Init == program = "lotto" /\ stores_data = <<>> /\ InitCommon

GenerateStatistics ==
    \/ LoadAllDrawData
    \/ AnalyzeNumberFrequency
    \/ AnalyzeStoreStatistics
    \/ AnalyzeSumAndAverage
    \/ DormantBegin
    \/ DormantStep
    \/ DormantEnd
    \/ AnalyzeAutoManualRatio
    \/ AnalyzeRegionalStats
    \/ Assemble

Next ==
    \/ \E d \in HistoryDraws : SaveDrawData(d)
    \/ GenerateStatistics
    \/ SaveStatistics

Spec == Init /\ [][Next]_vars

-----------------------------------------------------------------------------
(* The records and the outlet registry of the report assembler's runs *)

\* draw files of SpecAssembler are numbered 1..MaxReportDrawNo
MaxReportDrawNo == 2

\* a record without one of its keys
WithoutKey(d, key) == [d EXCEPT !.keys = @ \ {key}]

\* a record of the format before first_prize_store_info: the ids only
LegacyDraw(n, numbers, bonus, store_ids) ==
    [CrawledDraw(n, numbers, bonus, <<>>) EXCEPT
        !.first_prize_store_ids = store_ids,
        !.keys = (@ \ {"first_prize_store_info"}) \cup {"first_prize_store_ids"}]

\* lotto_stores.json: an outlet in Seoul, one whose address is empty, one
\* whose address is None, and one in Gyeongbuk
Registry ==
    [id \in {"s1", "s2", "s3", "s4"} |->
        CASE id = "s1" -> [name |-> "A", address |-> <<"seo", "ul", SPACE, "gang", "seo", "gu">>]
          [] id = "s2" -> [name |-> "B", address |-> <<>>]
          [] id = "s3" -> [name |-> "C", address |-> NULL_ADDRESS]
          [] id = "s4" -> [name |-> "D", address |-> <<"gyeong", "buk", SPACE, "po", "hang", "si">>]]

\* the outlets of a draw: "s1" and "s2" are registered, "s9" is in no registry
StoreInfo ==
    <<[store_id |-> "s1", type |-> AUTO], [store_id |-> "s9", type |-> MANUAL],
      [store_id |-> "s2", type |-> SEMI]>>

ScenarioNumbers == <<1, 2, 4, 16, 20, 32>>

\* the draws of SpecAssembler: crawled records with and without outlets, a
\* legacy record, a record won at the outlet with no address, and records
\* that lack 'numbers', 'draw_date' or 'updated_at'
ReportDraws ==
    UNION { { CrawledDraw(n, ScenarioNumbers, 45, StoreInfo),
              CrawledDraw(n, ScenarioNumbers, 45, <<>>),
              LegacyDraw(n, ScenarioNumbers, 45, <<"s9", "s1", "s4">>),
              CrawledDraw(n, ScenarioNumbers, 45, <<[store_id |-> "s3", type |-> AUTO]>>),
              WithoutKey(CrawledDraw(n, <<>>, 45, <<>>), "numbers"),
              WithoutKey(CrawledDraw(n, ScenarioNumbers, 45, StoreInfo), "draw_date"),
              WithoutKey(CrawledDraw(n, ScenarioNumbers, 45, <<>>), "updated_at") }
          : n \in 1..MaxReportDrawNo }

-----------------------------------------------------------------------------
(* The pension statistics script (src/src/pension_statistics.py) *)

\* the record pension_crawler.crawl_draw returns when the prize detail is empty
PensionDraw(n, group, numbers, bonus_numbers) ==
    [draw_no |-> n, group |-> group, numbers |-> numbers,
     bonus_numbers |-> bonus_numbers, prize_info |-> <<>>, updated_at |-> n,
     keys |-> {"numbers", "group", "bonus_numbers", "prize_info", "updated_at"}]

PensionDraws ==
    {PensionDraw(n, g, <<1, 2, 3, 4, 5, d>>, <<6, 5, 4, 3, 2, 1>>) :
        n \in 1..MaxReportDrawNo, g \in {"1", "2"}, d \in {6, 7}}

\* pension load_all_draw_data: sorted by draw_no ('numbers' defaults to [])
pension_load_all_draw_data(files) ==
    LET keys == Ascending(DOMAIN files)
        all_data == List([i \in 1..Len(keys) |->
                        [files[keys[i]] EXCEPT
                            !.numbers = IF Has(files[keys[i]], "numbers") THEN @ ELSE <<>>,
                            !.keys = @ \cup {"numbers"}]])
    IN  StableSort(all_data, [i \in 1..Len(keys) |-> all_data[i].draw_no], FALSE)

\* analyze_number_frequency of PensionStatistics
pension_number_frequency(list) ==
    LET with_group == SelectSeq(list, LAMBDA d : Has(d, "group"))
        with_numbers == SelectSeq(list, LAMBDA d : Has(d, "numbers") /\ Len(d.numbers) = 6)
        with_bonus == SelectSeq(list,
                        LAMBDA d : Has(d, "bonus_numbers") /\ Len(d.bonus_numbers) = 6)
        stats(items) ==
            LET keys == most_common(items)
            IN  [k \in DOMAIN keys |->
                    [key |-> keys[k],
                     count |-> Count(keys[k], items),
                     percentage |-> RoundHundredths(Count(keys[k], items) * 100, Len(list))]]
    IN  [group_frequency |-> stats(List([i \in DOMAIN with_group |-> with_group[i].group])),
         position_frequency |->
            [pos \in 1..6 |->
                stats(List([i \in DOMAIN with_numbers |-> with_numbers[i].numbers[pos]]))],
         bonus_frequency |->
            [pos \in 1..6 |->
                stats(List([i \in DOMAIN with_bonus |-> with_bonus[i].bonus_numbers[pos]]))],
         total_draws |-> Len(list)]

\* generate_statistics of PensionStatistics; no prize_info entry and no outlet
\* of any draw: rank_stats, region_stats and top_stores are empty
pension_generate_statistics(files, clock) ==
    LET list == pension_load_all_draw_data(files)
    IN  IF list = <<>> THEN None
        ELSE [kind |-> "report",
              total_draws |-> Len(list),
              first_draw |-> list[1].draw_no,
              last_draw |-> list[Len(list)].draw_no,
              frequency_stats |-> pension_number_frequency(list),
              prize_stats |-> [rank_stats |-> <<>>],
              store_stats |-> [region_stats |-> <<>>, top_stores |-> <<>>],
              updated_at |-> clock]

\* pension_crawler.save_draw_data
SavePensionDraw(d) ==
    /\ program = "pension"
    /\ pc = "idle"
    /\ runs = 0
    /\ Cardinality(DOMAIN draw_files \cup {d.draw_no}) <= MaxDraws
    /\ draw_files' = [k \in DOMAIN draw_files \cup {d.draw_no} |->
                         IF k = d.draw_no THEN d ELSE draw_files[k]]
    /\ UNCHANGED <<call, program, stores_data, now, pc, runs, draw_data_list, dormant_locals,
                   results, outcome>>

\* time passes; of the two scripts only pension_statistics reads the clock
Tick ==
    /\ program = "pension"
    /\ now < MaxClock
    /\ now' = now + 1
    /\ UNCHANGED <<call, inputs, pc, runs, draw_data_list, dormant_locals, results, outcome>>

PensionGenerateStatistics ==
    /\ program = "pension"
    /\ pc = "idle"
    /\ statistics' = pension_generate_statistics(draw_files, now)
    /\ pc' = "returned"
    /\ UNCHANGED <<call, inputs, now, runs, draw_data_list, dormant_locals, results,
                   previous_statistics, statistics_file, save_returned>>

\* what run() returns: LottoStatistics.run has no return statement and
\* returns None on both paths; PensionStatistics.run returns True after
\* save_statistics, whatever it returned, and False from its except clause
run_returns(prog, position) ==
    IF prog = "lotto" THEN None
    ELSE IF position = "saved" THEN [kind |-> "bool", value |-> TRUE]
    ELSE [kind |-> "bool", value |-> FALSE]

\* return 0 if success else 1
exit_code(success) ==
    IF success = None THEN 1 ELSE IF success.value THEN 0 ELSE 1

\* run() has called generate_statistics and save_statistics, or caught what
\* generate_statistics raised, and returns; main() returns its exit code
MainReturns ==
    /\ program \in {"lotto", "pension"}
    /\ pc \in {"saved", "raised"}
    /\ IF call = NoValue THEN TRUE ELSE call.run # runs
    /\ call' = [fn |-> "main", run |-> runs,
                success |-> run_returns(program, pc),
                result |-> exit_code(run_returns(program, pc))]
    /\ UNCHANGED <<inputs, now, pc, runs, draw_data_list, dormant_locals, results, outcome>>

InitAssembler ==
    /\ program \in {"lotto", "pension"}
    /\ stores_data \in (IF program = "lotto" THEN {<<>>, Registry} ELSE {<<>>})
    /\ InitCommon

NextAssembler ==
    \/ \E d \in ReportDraws : SaveDrawData(d)
    \/ GenerateStatistics
    \/ SaveStatistics
    \/ RunAgain
    \/ \E d \in PensionDraws : SavePensionDraw(d)
    \/ Tick
    \/ PensionGenerateStatistics
    \/ MainReturns

SpecAssembler == InitAssembler /\ [][NextAssembler]_vars

-----------------------------------------------------------------------------
(* Properties of the number frequency and dormancy analyzers (Spec) *)

\* every draw of the list has exactly 6 numbers in 1..45 and a bonus number
\* in 1..45
WellFormedHistory(list) ==
    \A i \in DOMAIN list :
        /\ Len(list[i].numbers) = 6
        /\ Range(list[i].numbers) \subseteq 1..45
        /\ list[i].bonus_number \in 1..45

\* C1: for a history of N draws, each with 6 numbers and a bonus number in
\* 1..45, all_numbers_frequency has one entry per number 1..45, the
\* regular_frequency of its entries add up to 6N, the bonus_frequency to N,
\* and frequency = regular_frequency + bonus_frequency in every entry.
FrequencySums ==
    (frequency_stats # NoValue /\ WellFormedHistory(draw_data_list)) =>
        LET f == frequency_stats.all_numbers_frequency
            N == Len(draw_data_list)
        IN  /\ Len(f) = 45
            /\ {f[i].number : i \in DOMAIN f} = 1..45
            /\ SeqSum([i \in DOMAIN f |-> f[i].regular_frequency]) = 6 * N
            /\ SeqSum([i \in DOMAIN f |-> f[i].bonus_frequency]) = N
            /\ \A i \in DOMAIN f :
                   f[i].frequency = f[i].regular_frequency + f[i].bonus_frequency

\* the frequencies of a history of several draws were computed, and a
\* number was drawn both as a regular and as a bonus number
FrequencySumsWitness ==
    /\ frequency_stats # NoValue
    /\ WellFormedHistory(draw_data_list)
    /\ Len(draw_data_list) >= 2
    /\ \E i \in DOMAIN frequency_stats.all_numbers_frequency :
           /\ frequency_stats.all_numbers_frequency[i].regular_frequency > 0
           /\ frequency_stats.all_numbers_frequency[i].bonus_frequency > 0

\* the draw_no of the draws the loop has processed that contain num, taken
\* from the files: the loop has processed the idx - 1 smallest draw numbers
processed_appearances(num) ==
    LET order == Ascending(DOMAIN draw_files)
    IN  {order[i] : i \in {j \in 1..(idx - 1) : InList(num, draw_files[order[j]].numbers)}}

\* the gaps between the consecutive elements of a set of draw numbers
gaps_of(appearances) ==
    LET a == Ascending(appearances)
    IN  [j \in 1..(Len(a) - 1) |-> a[j + 1] - a[j] - 1]

\* after any prefix of the history last_appearance[n] is the largest
\* processed draw_no containing n (0 if none) and dormant_periods[n] is the
\* list of the gaps between the consecutive appearances of n
DormantPrefix ==
    pc = "dormant_loop" =>
        \A num \in 1..45 :
            LET seen == processed_appearances(num)
            IN  /\ last_appearance[num] =
                       (IF seen = {} THEN 0 ELSE CHOOSE m \in seen : \A x \in seen : x <= m)
                /\ dormant_periods[num] = gaps_of(seen)

\* one pass of the loop: the draws come in ascending draw_no; for a number of
\* the draw the gap is appended iff it was seen before, and the draw becomes
\* its last appearance; nothing changes for the other numbers
DormantStepEffect ==
    (pc = "dormant_loop" /\ idx' = idx + 1) =>
        LET draw == sorted_draws[idx]
        IN  /\ idx > 1 => sorted_draws[idx - 1].draw_no < draw.draw_no
            /\ \A num \in 1..45 :
                   IF InList(num, draw.numbers)
                   THEN /\ last_appearance'[num] = draw.draw_no
                        /\ dormant_periods'[num] =
                              IF last_appearance[num] > 0
                              THEN Append(dormant_periods[num],
                                          draw.draw_no - last_appearance[num] - 1)
                              ELSE dormant_periods[num]
                   ELSE /\ last_appearance'[num] = last_appearance[num]
                        /\ dormant_periods'[num] = dormant_periods[num]

\* C2: the dormancy tracker processes the draws in ascending draw_no; each
\* time number n appears, the gap draw_no - last_seen[n] - 1 is appended to
\* n's period list if last_seen[n] > 0, and then last_seen[n] = draw_no; so
\* after any prefix last_seen[n] is the largest processed draw_no containing
\* n (0 if none) and the period list is the sequence of gaps between the
\* consecutive appearances of n.
DormancyTracker == [](DormantPrefix) /\ [][DormantStepEffect]_vars

\* the loop is over, and a number that appeared, was absent for one draw
\* and appeared again has the period list [1]
DormancyTrackerWitness ==
    /\ pc = "dormant_loop"
    /\ idx > Len(sorted_draws)
    /\ \E num \in 1..45 : dormant_periods[num] = <<1>> /\ last_appearance[num] = 3

\* the largest draw_no of the history
largest_draw_no == CHOOSE m \in DOMAIN draw_files : \A k \in DOMAIN draw_files : k <= m

\* C3: after analyze_dormant_periods on a non-empty history with distinct
\* positive draw_no, current_dormant >= 0 for every number 1..45, and
\* current_dormant = 0 for every number of the draw with the largest draw_no.
CurrentDormantNonNegative ==
    (dormant_stats # NoValue /\ draw_files # <<>>) =>
        LET stats == dormant_stats.overall_stats
        IN  /\ {stats[i].number : i \in DOMAIN stats} = 1..45
            /\ \A i \in DOMAIN stats :
                   /\ stats[i].current_dormant >= 0
                   /\ InList(stats[i].number, draw_files[largest_draw_no].numbers)
                          => stats[i].current_dormant = 0

\* the dormancy of a history of several draws was computed, and a number
\* outside the latest draw has a positive current_dormant
CurrentDormantNonNegativeWitness ==
    /\ dormant_stats # NoValue
    /\ Cardinality(DOMAIN draw_files) >= 2
    /\ \E i \in DOMAIN dormant_stats.overall_stats :
           LET e == dormant_stats.overall_stats[i]
           IN  /\ e.current_dormant > 0
               /\ e.appearance_count > 0
               /\ ~InList(e.number, draw_files[largest_draw_no].numbers)

\* C4: after all draws are processed, current_dormant[n] is
\* latest_draw_no - last_seen[n] when n was seen at least once and
\* latest_draw_no when n never appeared, latest_draw_no being the largest
\* draw_no of the history.
CurrentDormantFormula ==
    (dormant_stats # NoValue /\ draw_files # <<>>) =>
        \A i \in DOMAIN dormant_stats.overall_stats :
            LET e == dormant_stats.overall_stats[i]
                seen == \E k \in DOMAIN draw_files : InList(e.number, draw_files[k].numbers)
            IN  e.current_dormant =
                    IF seen THEN largest_draw_no - last_appearance[e.number]
                    ELSE largest_draw_no

\* the dormancy was computed for a history whose latest draw is not draw 1,
\* with a number that never appeared and one that appeared before the latest
CurrentDormantFormulaWitness ==
    /\ dormant_stats # NoValue
    /\ draw_files # <<>>
    /\ largest_draw_no > 1
    /\ \E i, j \in DOMAIN dormant_stats.overall_stats :
           /\ dormant_stats.overall_stats[i].appearance_count = 0
           /\ dormant_stats.overall_stats[i].current_dormant = largest_draw_no
           /\ dormant_stats.overall_stats[j].appearance_count > 0
           /\ dormant_stats.overall_stats[j].current_dormant > 0

-----------------------------------------------------------------------------
(* Properties of the report assembler (SpecAssembler) *)

\* C5: when the loaded draw history is empty, generate_statistics returns
\* None without running any analyzer, and save_statistics given that result
\* returns False and writes no statistics file (lotto and pension).
EmptyHistoryNoReport ==
    (draw_files = <<>> /\ pc \in {"returned", "saved"}) =>
        /\ statistics = None
        /\ \A i \in DOMAIN results : results[i] = NoValue
        /\ dormant_locals = <<<<>>, 0, 0, <<>>, <<>>>>
        /\ statistics_file = NoValue
        /\ pc = "saved" => save_returned = FALSE

\* a second run on an empty history has saved: nothing was returned, False
\* was returned by save_statistics, and there is no statistics file
EmptyHistoryNoReportWitness ==
    /\ draw_files = <<>>
    /\ pc = "saved"
    /\ runs = 1
    /\ statistics = None
    /\ save_returned = FALSE
    /\ statistics_file = NoValue

\* C6 as the specification states it: for every non-empty draw history
\* generate_statistics of LottoStatistics raises no exception, also when a
\* record lacks 'numbers', 'updated_at' or 'draw_date'.
NonEmptyHistoryNeverRaises ==
    (program = "lotto" /\ draw_files # <<>>) => pc # "raised"

\* C7 as the specification states it: a second run of generate_statistics
\* on the same draw history and outlet registry returns a report equal to
\* the first in every field, updated_at included (lotto and pension).
SecondRunSameReport ==
    (previous_statistics # NoValue /\ statistics # NoValue) =>
        statistics = previous_statistics

\* the outlet ids of all draws of the history
RECURSIVE winning_ids(_)
winning_ids(numbers) ==
    IF numbers = <<>> THEN <<>>
    ELSE store_ids_of(draw_files[Head(numbers)]) \o winning_ids(Tail(numbers))

\* the wins whose outlet id is not in the registry, and the other wins
unresolved_ids ==
    SelectSeq(winning_ids(Ascending(DOMAIN draw_files)),
              LAMBDA id : id \notin DOMAIN stores_data)

registered_ids ==
    SelectSeq(winning_ids(Ascending(DOMAIN draw_files)),
              LAMBDA id : id \in DOMAIN stores_data)

\* the count of a key in a list of (key, count, percentage), 0 if absent
count_of(stats, key) ==
    SeqSum([i \in DOMAIN stats |-> IF stats[i].key = key THEN stats[i].count ELSE 0])

-----------------------------------------------------------------------------
(* The per-draw analysis of the crawler (src/src/crawler.py) *)

\* the numbers of the draws of SpecCrawler are drawn from 1..MaxBall
MaxBall == 18

\* abs(a - b)
abs_diff(a, b) == IF a >= b THEN a - b ELSE b - a

\* primes = {2, 3, 5, ...}
PRIMES == {2, 3, 5, 7, 11, 13, 17, 19, 23, 29, 31, 37, 41, 43}

ac_value_minus_six(numbers) ==
    Cardinality({abs_diff(numbers[i], numbers[j]) :
                    i \in DOMAIN numbers, j \in DOMAIN numbers} \ {0}) - 6
\* diffs = {abs(a - b) for a, b in combinations(numbers, 2)};
\* ac_value = len(diffs) - (6 - 1)
ac_value(numbers) ==
    LET pairs == {p \in (DOMAIN numbers) \X (DOMAIN numbers) : p[1] < p[2]}
        diffs == {abs_diff(numbers[p[1]], numbers[p[2]]) : p \in pairs}
    IN  Cardinality(diffs) - (6 - 1)

analyze_number_properties_even_first(numbers) ==
    LET even_count == Cardinality({i \in DOMAIN numbers : numbers[i] % 2 = 0})
        low_count == Cardinality({i \in DOMAIN numbers :
                                     1 <= numbers[i] /\ numbers[i] <= 22})
    IN  [sum_total |-> SeqSum(numbers),
         odd_even_pattern |-> <<even_count, 6 - even_count>>,
         high_low_pattern |-> <<low_count, 6 - low_count>>,
         ac_value |-> ac_value(numbers),
         prime_count |-> Cardinality({i \in DOMAIN numbers : numbers[i] \in PRIMES})]
\* _analyze_number_properties; a pattern "a:b" is the pair <<a, b>>
analyze_number_properties(numbers) ==
    LET odd_count == Cardinality({i \in DOMAIN numbers : numbers[i] % 2 # 0})
        low_count == Cardinality({i \in DOMAIN numbers :
                                     1 <= numbers[i] /\ numbers[i] <= 22})
    IN  [sum_total |-> SeqSum(numbers),
         odd_even_pattern |-> <<odd_count, 6 - odd_count>>,
         high_low_pattern |-> <<low_count, 6 - low_count>>,
         ac_value |-> ac_value(numbers),
         prime_count |-> Cardinality({i \in DOMAIN numbers : numbers[i] \in PRIMES})]

\* An amount of won that may exceed 2^31 - 1 is kept as thousands and units:
\* Won(hi, lo) is 1000 * hi + lo, with 0 <= lo < 1000.
Won(hi, lo) == [hi |-> hi, lo |-> lo]

\* the amount 1000 * hi + lo for any integer lo
Carry(hi, lo) == Won(hi + (lo \div 1000), lo % 1000)

\* amount - n, for an integer n
Minus(amount, n) == Carry(amount.hi, amount.lo - n)

\* amount > 0
Positive(amount) == amount.hi > 0 \/ (amount.hi = 0 /\ amount.lo > 0)

\* amount <= n, for an integer n
AtMost(amount, n) ==
    amount.hi < n \div 1000 \/ (amount.hi = n \div 1000 /\ amount.lo <= n % 1000)

\* math.floor(amount * pct / 100 / 10): the tens of won in pct percent of
\* the amount, floor(pct * (1000 * hi + lo) / 1000) = pct * hi + floor(pct * lo / 1000)
TensOfPercent(amount, pct) == pct * amount.hi + ((pct * amount.lo) \div 1000)

\* cost_of_ticket = 1000
cost_of_ticket == 1000

\* if taxable_amt <= 300000000
TaxThreshold == 300000000

tax_of_floor_to_won(taxable_amt) ==
    IF AtMost(taxable_amt, TaxThreshold)
    THEN 220 * taxable_amt.hi + ((22 * taxable_amt.lo) \div 100)
    ELSE (TaxThreshold \div 100) * 22
         + 330 * Minus(taxable_amt, TaxThreshold).hi
         + ((33 * Minus(taxable_amt, TaxThreshold).lo) \div 100)
\* tax = taxable_amt * 0.22, or 300000000 * 0.22 + (taxable_amt - 300000000) * 0.33;
\* tax = math.floor(tax / 10) * 10.  The products are computed exactly here;
\* the double-precision products of the code have the same floor for every
\* amount of PrizeAmounts.
tax_of(taxable_amt) ==
    IF AtMost(taxable_amt, TaxThreshold)
    THEN 10 * TensOfPercent(taxable_amt, 22)
    ELSE 10 * ((TaxThreshold \div 1000) * 22
               + TensOfPercent(Minus(taxable_amt, TaxThreshold), 33))

\* a field that int() cannot parse (ValueError)
NotANumber == [kind |-> "text"]

\* the first entry of prize_info whose rank is '1등', 0 if there is none
first_prize_entry(prize_info) ==
    LET firsts == {i \in DOMAIN prize_info : prize_info[i].rank = 1}
    IN  IF firsts = {} THEN 0 ELSE CHOOSE i \in firsts : \A j \in firsts : i <= j

\* the locals and the result of the tax part of _analyze_winner_insight
tax_adjusted(prize_info) ==
    LET i == first_prize_entry(prize_info)
        untaxed == [first_prize_amt |-> Won(0, 0), taxable_amt |-> NoValue,
                    tax |-> 0, tax_adjusted_prize |-> Won(0, 0)]
    IN  IF i = 0 THEN untaxed
        ELSE IF prize_info[i].prize_per_winner \in {NotANumber, None} THEN untaxed
        ELSE IF ~Positive(prize_info[i].prize_per_winner)
             THEN [untaxed EXCEPT !.first_prize_amt = prize_info[i].prize_per_winner]
        ELSE LET first_prize_amt == prize_info[i].prize_per_winner
                 taxable_amt == Minus(first_prize_amt, cost_of_ticket)
                 tax == tax_of(taxable_amt)
             IN  [first_prize_amt |-> first_prize_amt,
                  taxable_amt |-> taxable_amt,
                  tax |-> tax,
                  tax_adjusted_prize |-> Minus(first_prize_amt, tax)]

\* int(x) succeeds: x is a numeric string (an amount), not None (TypeError)
\* and not a text without a number in it (ValueError)
parses(x) == x # None /\ x # NotANumber

\* the integer of an amount below 2^31
ToInt(amount) == 1000 * amount.hi + amount.lo

\* 'total_prize' in rank_info
has_total_prize(rank_info) == rank_info.total_prize # NoValue

\* the conversions of one pass of "for rank_info in prize_info" succeed
tier_parses(rank_info) ==
    IF has_total_prize(rank_info) THEN parses(rank_info.total_prize)
    ELSE parses(rank_info.winner_count) /\ parses(rank_info.prize_per_winner)

\* what one pass adds to total_prize_sum
tier_amount(rank_info) ==
    IF has_total_prize(rank_info) THEN ToInt(rank_info.total_prize)
    ELSE ToInt(rank_info.winner_count) * ToInt(rank_info.prize_per_winner)

\* the try block of total_payout_rate raises ValueError or TypeError
payout_raises(prize_info, total_sales) ==
    \/ ~parses(total_sales)
    \/ /\ Positive(total_sales)
       /\ \E i \in DOMAIN prize_info : ~tier_parses(prize_info[i])

\* total_payout_rate, in hundredths of a percent: 0.0 unless sales > 0 and
\* every conversion succeeds
total_payout_rate(prize_info, total_sales) ==
    IF payout_raises(prize_info, total_sales) THEN 0
    ELSE IF ~Positive(total_sales) THEN 0
    ELSE RoundHundredths(
             SeqSum([i \in DOMAIN prize_info |-> tier_amount(prize_info[i])]) * 100,
             ToInt(total_sales))

\* the 'type' of an outlet entry that is None (a JSON null of the provider),
\* and the default '' of s.get('type', '')
NULL_TYPE == "None"
EMPTY_TYPE == ""

\* s.get('type', default); s.get('type') has the default None
get_type(s, default) == IF "type" \in DOMAIN s THEN s.type ELSE default

\* an exception that escapes _analyze_winner_insight
TypeError == [kind |-> "TypeError"]

\* '자동' in s.get('type', '') of the first, overwritten, auto_count: true of
\* the tags '자동' and '반자동', and a TypeError when the type is None
auto_in_type_raises(store_info) ==
    /\ Len(store_info) > 0
    /\ \E i \in DOMAIN store_info : get_type(store_info[i], EMPTY_TYPE) = NULL_TYPE

\* winner_method_rate, in tenths of a percent, when the block does not raise
winner_method_rate(store_info) ==
    LET total_winners == Len(store_info)
        rate(tag) == IF total_winners > 0
                     THEN RoundTenths(
                              Cardinality({i \in DOMAIN store_info :
                                     get_type(store_info[i], NULL_TYPE) = tag}) * 100,
                              total_winners)
                     ELSE 0
    IN  [auto |-> rate(AUTO), manual |-> rate(MANUAL), semi |-> rate(SEMI)]

analyze_winner_insight_one_try(store_info, prize_info, total_sales) ==
    IF payout_raises(prize_info, total_sales)
    THEN [total_payout_rate |-> 0,
          winner_method_rate |-> [auto |-> 0, manual |-> 0, semi |-> 0],
          tax_adjusted_prize |-> Won(0, 0)]
    ELSE [total_payout_rate |-> total_payout_rate(prize_info, total_sales),
          winner_method_rate |-> winner_method_rate(store_info),
          tax_adjusted_prize |-> tax_adjusted(prize_info).tax_adjusted_prize]
\* _analyze_winner_insight: three parts, the first and the last each in a
\* try block of its own; an exception of the second part escapes
analyze_winner_insight(store_info, prize_info, total_sales) ==
    IF auto_in_type_raises(store_info)
    THEN TypeError
    ELSE [total_payout_rate |-> total_payout_rate(prize_info, total_sales),
          winner_method_rate |-> winner_method_rate(store_info),
          tax_adjusted_prize |-> tax_adjusted(prize_info).tax_adjusted_prize]

numbers_as_given(numbers) == numbers
\* sorted(numbers)
sorted_numbers(numbers) == StableSort(numbers, numbers, FALSE)

\* the positions i of a list with list[i + 1] - list[i] = 1
adjacent_positions(nums) == {i \in 1..(Len(nums) - 1) : nums[i + 1] - nums[i] = 1}

\* consecutive_sets: the adjacent pairs of sorted(numbers) that differ by 1
consecutive_sets(numbers) == Cardinality(adjacent_positions(sorted_numbers(numbers)))

\* the key of section_counts a number is counted in ("none": in no section)
section_of(n) ==
    IF 1 <= n /\ n <= 10 THEN "unit"
    ELSE IF 11 <= n /\ n <= 20 THEN "ten"
    ELSE IF 21 <= n /\ n <= 30 THEN "twenty"
    ELSE IF 31 <= n /\ n <= 40 THEN "thirty"
    ELSE IF 41 <= n /\ n <= 45 THEN "forty"
    ELSE "none"

\* the keys of section_counts and their identifiers in missing_sections
SECTIONS == <<"unit", "ten", "twenty", "thirty", "forty">>
SECTION_IDS == <<"1", "10", "20", "30", "40">>

\* _analyze_range_and_sequence
analyze_range_and_sequence(numbers) ==
    LET section_counts ==
            [k \in Range(SECTIONS) |->
                Cardinality({i \in DOMAIN numbers : section_of(numbers[i]) = k})]
        missing == SelectSeq([i \in 1..5 |-> i], LAMBDA i : section_counts[SECTIONS[i]] = 0)
    IN  [section_counts |-> section_counts,
         consecutive_sets |-> consecutive_sets(numbers),
         missing_sections |-> [i \in DOMAIN missing |-> SECTION_IDS[missing[i]]]]

\* the draws of SpecCrawler: six different numbers of 1..MaxBall, ascending
DrawnNumbers ==
    {Ascending(S) : S \in {T \in SUBSET (1..MaxBall) : Cardinality(T) = 6}}
    \cup {ScenarioNumbers}

\* the first prizes per winner of SpecCrawler: around 0, around the ticket
\* cost, around the tax threshold, and around 2,357,299,875
PrizeAmounts ==
    {Won(hi, lo) : hi \in {0, 1, 2, 299999, 300000, 300001, 300002, 2357299},
                   lo \in 0..999}

\* one entry of prize_info as crawl_draw writes it ('total_prize' present,
\* one winner)
PrizeEntry(rank, prize_per_winner, total_prize) ==
    [rank |-> rank, prize_per_winner |-> prize_per_winner,
     total_prize |-> total_prize, winner_count |-> Won(0, 1)]

\* one entry of prize_info without 'total_prize'
PrizeEntryCounted(rank, winner_count, prize_per_winner) ==
    [rank |-> rank, prize_per_winner |-> prize_per_winner,
     total_prize |-> NoValue, winner_count |-> winner_count]

\* the prize_info lists of SpecCrawler that sweep the first prize
PrizeInfos ==
    {<<PrizeEntry(1, p, Won(1, 500))>> : p \in PrizeAmounts}
    \cup {<<PrizeEntry(2, Won(50000, 0), Won(0, 500)),
            PrizeEntry(1, Won(2357299, 875), Won(1, 500))>>,
          <<PrizeEntry(1, NotANumber, Won(1, 500))>>,
          <<PrizeEntry(2, Won(50000, 0), Won(0, 500))>>,
          <<>>}

\* the prize_info lists of SpecCrawler with amounts that do not parse and
\* with entries without 'total_prize'; their sums stay below 2^31
PayoutPrizeInfos ==
    {<<PrizeEntry(1, Won(2357299, 875), t), e>> :
        t \in {Won(1, 500), NotANumber, None},
        e \in {PrizeEntry(5, Won(5, 0), Won(0, 250)),
               PrizeEntry(5, Won(5, 0), NotANumber),
               PrizeEntryCounted(5, Won(0, 3), Won(0, 125)),
               PrizeEntryCounted(5, NotANumber, Won(0, 125)),
               PrizeEntryCounted(5, Won(0, 3), NotANumber)}}
    \cup {<<PrizeEntryCounted(1, Won(0, 2), NotANumber)>>,
          <<PrizeEntryCounted(1, Won(0, 2), Won(0, 900))>>}

\* total_sales: a numeric string (positive, zero, negative), a text that is
\* no number, or None for a missing amount
SalesAmounts == {Won(2, 0), Won(0, 0), Won(-1, 995), NotANumber, None}

\* the entries of first_prize_store_info get_store_info can build: the tag is
\* a text of the provider ('자동', '수동', '반자동' or another one, here ''),
\* a null, or, in a record written by an earlier version, absent
StoreEntries ==
    {[store_id |-> "s1", type |-> t] : t \in {AUTO, MANUAL, SEMI, EMPTY_TYPE, NULL_TYPE}}
    \cup {[store_id |-> "s1"]}

MaxWinners == 3

\* first_prize_store_info of up to MaxWinners outlets
StoreInfos ==
    UNION {[1..n -> StoreEntries] : n \in 0..MaxWinners}

\* the arguments of the calls of _analyze_winner_insight in SpecCrawler
WinnerInsightCalls ==
    ({<<>>, StoreInfo} \X PrizeInfos \X {Won(0, 0), Won(2, 0)})
    \cup ({<<>>, StoreInfo} \X PayoutPrizeInfos \X SalesAmounts)
    \cup (StoreInfos \X {<<PrizeEntry(1, Won(1, 500), Won(1, 500))>>} \X {Won(2, 0)})

\* get_analysis_stats calls _analyze_number_properties(numbers)
AnalyzeNumberProperties ==
    /\ program = "crawler"
    /\ call = NoValue
    /\ \E numbers \in DrawnNumbers :
          call' = [fn |-> "_analyze_number_properties",
                   numbers |-> numbers,
                   result |-> analyze_number_properties(numbers)]
    /\ UNCHANGED <<inputs, now, pc, runs, draw_data_list, dormant_locals, results, outcome>>

\* get_analysis_stats calls _analyze_winner_insight(store_info, prize_info,
\* total_sales)
AnalyzeWinnerInsight ==
    /\ program = "crawler"
    /\ call = NoValue
    /\ \E args \in WinnerInsightCalls :
          LET store_info == args[1]
              prize_info == args[2]
              total_sales == args[3]
          IN  call' = [fn |-> "_analyze_winner_insight",
                       store_info |-> store_info,
                       prize_info |-> prize_info,
                       total_sales |-> total_sales,
                       locals |-> tax_adjusted(prize_info),
                       result |-> analyze_winner_insight(store_info, prize_info,
                                                         total_sales)]
    /\ UNCHANGED <<inputs, now, pc, runs, draw_data_list, dormant_locals, results, outcome>>

\* get_analysis_stats calls _analyze_range_and_sequence(numbers)
AnalyzeRangeAndSequence ==
    /\ program = "crawler"
    /\ call = NoValue
    /\ \E numbers \in DrawnNumbers :
          call' = [fn |-> "_analyze_range_and_sequence",
                   numbers |-> numbers,
                   result |-> analyze_range_and_sequence(numbers)]
    /\ UNCHANGED <<inputs, now, pc, runs, draw_data_list, dormant_locals, results, outcome>>

\* the draw numbers (ltEpsd) of the provider's list: 1..MaxEpisode and 1200
MaxEpisode == 2
Episodes == (1..MaxEpisode) \cup {1200}

\* the provider's list holds at most MaxEntries entries
MaxEntries == 3

\* an int a function returns, as opposed to None
Some(n) == [kind |-> "int", value |-> n]

\* latest_draw.get('ltEpsd', 0)
ltEpsd_of(entry) == IF "ltEpsd" \in DOMAIN entry THEN entry.ltEpsd ELSE 0

\* get_latest_draw_number on the response data: None without data or list,
\* else the ltEpsd of the first entry of the list
get_latest_draw_number(response) ==
    IF ~response.has_data \/ response.list = <<>>
    THEN None
    ELSE LET latest_draw == response.list[1]
         IN  Some(ltEpsd_of(latest_draw))

\* the responses of the draw endpoint called without parameters: no data, or
\* a list of entries in any order, an entry possibly without 'ltEpsd'
DrawListResponses ==
    {[has_data |-> FALSE, list |-> <<>>]}
    \cup {[has_data |-> TRUE, list |-> l] :
            l \in UNION {[1..n -> {[ltEpsd |-> e, ltRflYmd |-> e] : e \in Episodes}
                                  \cup {[ltRflYmd |-> 0]}] : n \in 0..MaxEntries}}

\* str(rank) of the ranks 1 and 2; all other ranks are skipped alike
str_of_rank(rank) ==
    CASE rank = 1 -> "1"
      [] rank = 2 -> "2"
      [] OTHER -> "other"

\* store.get('shpAddr'): None when the entry has no address
shpAddr_of(store) == IF "shpAddr" \in DOMAIN store THEN store.shpAddr ELSE NULL_ADDRESS

with_draw_appended(s, x) == StableSort(s \o <<x>>, s \o <<x>>, TRUE)
\* s with x added if it is absent, in descending order
with_draw(s, x) == IF InList(x, s) THEN s ELSE StableSort(s \o <<x>>, s \o <<x>>, TRUE)

\* if draw_no and rank: None and 0 are falsy, both are 0 here
updates_history(store, draw_no) == draw_no # 0 /\ store.wnShpRnk # 0

\* save_single_store_info: stores_data[store_id], and the file of the outlet,
\* after the call; the history fields of an outlet already saved are kept, and
\* set when draw_no and rank are given
save_single_store_info(stores, store, draw_no) ==
    LET store_id == store.ltShpId
        had_history == /\ store_id \in DOMAIN stores
                       /\ "first_prize_draws" \in DOMAIN stores[store_id]
        old_first == IF had_history THEN stores[store_id].first_prize_draws ELSE <<>>
        old_second == IF had_history THEN stores[store_id].second_prize_draws ELSE <<>>
        rank_str == str_of_rank(store.wnShpRnk)
        first == IF rank_str = "1" THEN with_draw(old_first, draw_no) ELSE old_first
        second == IF rank_str = "2" THEN with_draw(old_second, draw_no) ELSE old_second
        store_data ==
            IF updates_history(store, draw_no)
            THEN [name |-> store.shpNm,
                  address |-> shpAddr_of(store),
                  first_prize_draws |-> first,
                  second_prize_draws |-> second,
                  first_prize_count |-> Len(first),
                  second_prize_count |-> Len(second)]
            ELSE IF had_history
            THEN [stores[store_id] EXCEPT !.name = store.shpNm,
                                          !.address = shpAddr_of(store)]
            ELSE [name |-> store.shpNm, address |-> shpAddr_of(store)]
    IN  [id \in DOMAIN stores \cup {store_id} |->
            IF id = store_id THEN store_data ELSE stores[id]]

RECURSIVE stores_after(_, _, _)
\* self.stores_data after the loop of get_store_info over stores_list
stores_after(stores, stores_list, draw_no) ==
    IF stores_list = <<>> THEN stores
    ELSE LET store == Head(stores_list)
         IN  IF str_of_rank(store.wnShpRnk) # "1" /\ str_of_rank(store.wnShpRnk) # "2"
             THEN stores_after(stores, Tail(stores_list), draw_no)
             ELSE stores_after(save_single_store_info(stores, store, draw_no),
                               Tail(stores_list), draw_no)

get_store_info_both_ranks(response) ==
    IF ~response.has_data \/ response.list = <<>>
    THEN <<>>
    ELSE LET first == SelectSeq(response.list,
                                LAMBDA store : str_of_rank(store.wnShpRnk) \in {"1", "2"})
         IN  [i \in DOMAIN first |->
                [store_id |-> first[i].ltShpId,
                 type |-> IF "atmtPsvYnTxt" \in DOMAIN first[i]
                          THEN first[i].atmtPsvYnTxt ELSE EMPTY_TYPE]]
\* the list get_store_info returns: the entries of rank 1, in response order
get_store_info(response) ==
    IF ~response.has_data \/ response.list = <<>>
    THEN <<>>
    ELSE LET first == SelectSeq(response.list,
                                LAMBDA store : str_of_rank(store.wnShpRnk) = "1")
         IN  [i \in DOMAIN first |->
                [store_id |-> first[i].ltShpId,
                 type |-> IF "atmtPsvYnTxt" \in DOMAIN first[i]
                          THEN first[i].atmtPsvYnTxt ELSE EMPTY_TYPE]]

\* the entries of the outlet list of the provider: two outlets of rank 1, 2
\* or 3 with a purchase-method tag, and one of rank 1 with neither a tag nor
\* an address
OutletEntries ==
    {[ltShpId |-> id, wnShpRnk |-> rank, atmtPsvYnTxt |-> t, shpNm |-> "A",
      shpAddr |-> <<"seo", "ul", SPACE, "gang", "seo", "gu">>] :
        id \in {"s1", "s2"}, rank \in 1..3, t \in {AUTO, MANUAL}}
    \cup {[ltShpId |-> "s3", wnShpRnk |-> 1, shpNm |-> "C"]}

\* the responses of the outlet endpoint for one draw
OutletResponses ==
    {[has_data |-> FALSE, list |-> <<>>]}
    \cup {[has_data |-> TRUE, list |-> l] :
            l \in UNION {[1..n -> OutletEntries] : n \in 0..MaxEntries}}

\* get_latest_draw_number()
GetLatestDrawNumber ==
    /\ program = "crawler"
    /\ call = NoValue
    /\ \E response \in DrawListResponses :
          call' = [fn |-> "get_latest_draw_number",
                   response |-> response,
                   result |-> get_latest_draw_number(response)]
    /\ UNCHANGED <<inputs, now, pc, runs, draw_data_list, dormant_locals, results, outcome>>

\* crawl_draw calls get_store_info(draw_no), which saves the outlets of rank
\* 1 and 2 and returns first_prize_store_info
GetStoreInfo ==
    /\ program = "crawler"
    /\ call = NoValue
    /\ \E response \in OutletResponses, draw_no \in 1..MaxEpisode :
          /\ call' = [fn |-> "get_store_info",
                      draw_no |-> draw_no,
                      response |-> response,
                      result |-> get_store_info(response)]
          /\ stores_data' = IF response.has_data
                            THEN stores_after(stores_data, response.list, draw_no)
                            ELSE stores_data
    /\ UNCHANGED <<program, draw_files, now, pc, runs, draw_data_list, dormant_locals,
                   results, outcome>>

InitCrawler == program = "crawler" /\ stores_data = <<>> /\ InitCommon

NextCrawler ==
    \/ AnalyzeNumberProperties
    \/ AnalyzeRangeAndSequence
    \/ AnalyzeWinnerInsight
    \/ GetLatestDrawNumber
    \/ GetStoreInfo

SpecCrawler == InitCrawler /\ [][NextCrawler]_vars

-----------------------------------------------------------------------------
(* save_single_store_info called again and again (SpecStores) *)

\* the draws outlets are saved for are 1..MaxSavedDraw
MaxSavedDraw == 2

\* the outlets save_single_store_info is called for: two outlets, with rank
\* 1, 2, 3 or without rank (0)
SavedOutlets ==
    {[ltShpId |-> id, wnShpRnk |-> rank, shpNm |-> "A",
      shpAddr |-> <<"seo", "ul", SPACE, "gang", "seo", "gu">>] :
        id \in {"s1", "s2"}, rank \in 0..3}

\* save_single_store_info(store_id, ..., draw_no=draw_no, rank=rank); draw_no
\* 0 stands for a call without draw_no.  The file of the outlet and
\* stores_data[store_id] are written with the same store_data, and no outlet
\* has a file at the start, so stores_data stands for both.
SaveSingleStoreInfo ==
    /\ program = "stores"
    /\ \E store \in SavedOutlets, draw_no \in 0..MaxSavedDraw :
          /\ stores_data' = save_single_store_info(stores_data, store, draw_no)
          /\ call' = [fn |-> "save_single_store_info", store |-> store,
                      draw_no |-> draw_no, before |-> stores_data]
    /\ UNCHANGED <<program, draw_files, now, pc, runs, draw_data_list, dormant_locals,
                   results, outcome>>

InitStores == program = "stores" /\ stores_data = <<>> /\ InitCommon

NextStores == SaveSingleStoreInfo

SpecStores == InitStores /\ [][NextStores]_vars

-----------------------------------------------------------------------------
(* _fetch_with_retry, statement by statement (SpecFetch) *)

\* max_retries is 0..MaxRetries (the callers pass nothing: 3)
MaxRetries == 4

\* how session.get and raise_for_status end: with a response, or with a
\* RequestException raised by get or by raise_for_status
RequestOutcomes == {"ok", "ConnectionError", "HTTPError"}

\* _fetch_with_retry(url, params, max_retries) is called; events is the
\* sequence of requests (by outcome) and sleeps of the call
FetchCall ==
    /\ program = "fetch"
    /\ pc = "idle"
    /\ \E max_retries \in 0..MaxRetries :
          call' = [fn |-> "_fetch_with_retry", max_retries |-> max_retries,
                   attempt |-> 0, events |-> <<>>, result |-> NoValue]
    /\ pc' = "for"
    /\ UNCHANGED <<inputs, now, runs, draw_data_list, dormant_locals, results, outcome>>

\* for attempt in range(max_retries): the body runs while attempt is below
\* max_retries; when the range is exhausted the function ends without a return
\* statement, which returns None
FetchFor ==
    /\ program = "fetch"
    /\ pc = "for"
    /\ IF call.attempt < call.max_retries
       THEN pc' = "try" /\ call' = call
       ELSE pc' = "returned" /\ call' = [call EXCEPT !.result = None]
    /\ UNCHANGED <<inputs, now, runs, draw_data_list, dormant_locals, results, outcome>>

\* response = self.session.get(...); response.raise_for_status(); return response
FetchTry ==
    /\ program = "fetch"
    /\ pc = "try"
    /\ \E how \in RequestOutcomes :
          IF how = "ok"
          THEN /\ pc' = "returned"
               /\ call' = [call EXCEPT !.events = Append(@, how),
                                       !.result = [kind |-> "response",
                                                   attempt |-> call.attempt]]
          ELSE /\ pc' = "except"
               /\ call' = [call EXCEPT !.events = Append(@, how)]
    /\ UNCHANGED <<inputs, now, runs, draw_data_list, dormant_locals, results, outcome>>

\* except RequestException: raise on the last attempt, else time.sleep(5) and
\* the next attempt
FetchExcept ==
    /\ program = "fetch"
    /\ pc = "except"
    /\ IF call.attempt = call.max_retries - 1
       THEN /\ pc' = "raised"
            /\ call' = [call EXCEPT !.result = [kind |-> call.events[Len(call.events)],
                                                attempt |-> call.attempt]]
       ELSE /\ pc' = "for"
            /\ call' = [call EXCEPT !.events = Append(@, "sleep"),
                                    !.attempt = @ + 1]
    /\ UNCHANGED <<inputs, now, runs, draw_data_list, dormant_locals, results, outcome>>

InitFetch == program = "fetch" /\ stores_data = <<>> /\ InitCommon

NextFetch ==
    \/ FetchCall
    \/ FetchFor
    \/ FetchTry
    \/ FetchExcept

SpecFetch == InitFetch /\ [][NextFetch]_vars

-----------------------------------------------------------------------------
(* analyze_number_patterns and analyze_consecutive_numbers of LottoStatistics, *)
(* called on a history (SpecPatterns: a history of one draw)                   *)

\* the position in 'ranges' a number is counted at (0: at none)
range_index_of(num) ==
    IF 1 <= num /\ num <= 9 THEN 1
    ELSE IF 10 <= num /\ num <= 19 THEN 2
    ELSE IF 20 <= num /\ num <= 29 THEN 3
    ELSE IF 30 <= num /\ num <= 39 THEN 4
    ELSE IF 40 <= num /\ num <= 45 THEN 5
    ELSE 0

\* ranges = [0, 0, 0, 0, 0] after the loop over the numbers of one draw
ranges_of(numbers) ==
    [k \in 1..5 |-> Cardinality({i \in DOMAIN numbers : range_index_of(numbers[i]) = k})]

\* odd_count = sum(1 for num in numbers if num % 2 == 1)
odd_count_of(numbers) == Cardinality({i \in DOMAIN numbers : numbers[i] % 2 = 1})

\* consecutive_count of analyze_number_patterns for one draw
consecutive_count_of(numbers) ==
    LET sorted == sorted_numbers(numbers)
    IN  Cardinality({i \in 2..Len(sorted) : sorted[i] = sorted[i - 1] + 1})

\* _calculate_pattern_stats over the list of the key_field values
calculate_pattern_stats(items) ==
    LET keys == most_common(items)
    IN  [total |-> Len(items),
         stats |-> [k \in DOMAIN keys |->
                      [pattern |-> keys[k],
                       count |-> Count(keys[k], items),
                       percentage |-> RoundHundredths(Count(keys[k], items) * 100,
                                                      Len(items))]]]

\* analyze_number_patterns; "a:b" and "a-b-c-d-e" are tuples, and the
\* unrounded average is the pair <<sum, count>>
analyze_number_patterns(list) ==
    LET odd_even_ratios ==
            [i \in DOMAIN list |->
                [draw_no |-> list[i].draw_no,
                 odd_count |-> odd_count_of(list[i].numbers),
                 even_count |-> 6 - odd_count_of(list[i].numbers),
                 ratio |-> <<odd_count_of(list[i].numbers),
                             6 - odd_count_of(list[i].numbers)>>]]
        range_distributions ==
            [i \in DOMAIN list |->
                [draw_no |-> list[i].draw_no,
                 ranges |-> ranges_of(list[i].numbers),
                 distribution |-> ranges_of(list[i].numbers)]]
        consecutive_patterns ==
            [i \in DOMAIN list |->
                [draw_no |-> list[i].draw_no,
                 consecutive_count |-> consecutive_count_of(list[i].numbers)]]
        counts == [i \in DOMAIN list |-> consecutive_patterns[i].consecutive_count]
    IN  [odd_even_ratios |-> odd_even_ratios,
         range_distributions |-> range_distributions,
         odd_even_stats |->
            calculate_pattern_stats([i \in DOMAIN list |-> odd_even_ratios[i].ratio]),
         range_stats |->
            calculate_pattern_stats([i \in DOMAIN list |-> range_distributions[i].distribution]),
         consecutive_stats |->
            [patterns |-> consecutive_patterns,
             average |-> IF list # <<>> THEN <<SeqSum(counts), Len(list)>> ELSE <<0, 1>>,
             max |-> IF list # <<>> THEN SeqMax(counts) ELSE 0,
             min |-> IF list # <<>> THEN SeqMin(counts) ELSE 0]]

\* consecutive_pairs_in_draw of analyze_consecutive_numbers for one draw
consecutive_pairs_in_draw(numbers) ==
    LET sorted == sorted_numbers(numbers)
        at == Ascending({i \in 1..(Len(sorted) - 1) : sorted[i + 1] = sorted[i] + 1})
    IN  [k \in DOMAIN at |-> <<sorted[at[k]], sorted[at[k] + 1]>>]

RECURSIVE all_consecutive_pairs(_)
\* the pairs of all draws, draw by draw, in list order
all_consecutive_pairs(list) ==
    IF list = <<>> THEN <<>>
    ELSE consecutive_pairs_in_draw(Head(list).numbers) \o all_consecutive_pairs(Tail(list))

\* analyze_consecutive_numbers; a pair "a-b" is <<a, b>>
analyze_consecutive_numbers(list) ==
    LET total_draws == Len(list)
        pairs == all_consecutive_pairs(list)
        top == Take(most_common(pairs), 10)
        with(n) == Cardinality({i \in DOMAIN list :
                                   Len(consecutive_pairs_in_draw(list[i].numbers)) >= n})
    IN  [total_draws |-> total_draws,
         draws_with_consecutive |-> with(1),
         draws_with_consecutive_percentage |->
             IF total_draws > 0 THEN RoundHundredths(with(1) * 100, total_draws) ELSE 0,
         draws_with_multiple_consecutive |-> with(2),
         draws_with_multiple_consecutive_percentage |->
             IF total_draws > 0 THEN RoundHundredths(with(2) * 100, total_draws) ELSE 0,
         top_consecutive_pairs |->
             [k \in DOMAIN top |->
                 [pair |-> top[k],
                  count |-> Count(top[k], pairs),
                  percentage |-> RoundHundredths(Count(top[k], pairs) * 100, total_draws)]]]

\* the orders the six numbers of a draw are given in: positions of the
\* ascending list (as drawn, reversed, rotated, interleaved)
Orders ==
    {<<1, 2, 3, 4, 5, 6>>, <<6, 5, 4, 3, 2, 1>>, <<4, 5, 6, 1, 2, 3>>,
     <<2, 1, 4, 3, 6, 5>>, <<1, 3, 5, 2, 4, 6>>, <<6, 1, 5, 2, 4, 3>>}

\* the sets of six numbers of SpecPatterns: the scenario draw, and for every
\* start six numbers in a row, with two pairs in a row, and with none
PatternSets ==
    {Range(ScenarioNumbers)}
    \cup {{k, k + 1, k + 2, k + 3, k + 4, k + 5} : k \in 1..40}
    \cup {{k, k + 1, k + 3, k + 5, k + 6, k + 8} : k \in 1..37}
    \cup {{k, k + 2, k + 4, k + 6, k + 8, k + 10} : k \in 1..35}

\* the numbers of the draws of SpecPatterns, in the order they are given
PatternNumbers ==
    {[i \in 1..6 |-> Ascending(S)[order[i]]] : S \in PatternSets, order \in Orders}

\* analyze_number_patterns(draw_data_list) on the history of one draw
AnalyzeNumberPatterns ==
    /\ program = "patterns"
    /\ call = NoValue
    /\ \E numbers \in PatternNumbers :
          LET draw == CrawledDraw(1, numbers, CHOOSE b \in 1..45 : ~InList(b, numbers), <<>>)
          IN  call' = [fn |-> "analyze_number_patterns",
                       numbers |-> numbers,
                       result |-> analyze_number_patterns(<<draw>>)]
    /\ UNCHANGED <<inputs, now, pc, runs, draw_data_list, dormant_locals, results, outcome>>

\* analyze_consecutive_numbers(draw_data_list) on the history of one draw
AnalyzeConsecutiveNumbers ==
    /\ program = "patterns"
    /\ call = NoValue
    /\ \E numbers \in PatternNumbers :
          LET draw == CrawledDraw(1, numbers, CHOOSE b \in 1..45 : ~InList(b, numbers), <<>>)
          IN  call' = [fn |-> "analyze_consecutive_numbers",
                       numbers |-> numbers,
                       result |-> analyze_consecutive_numbers(<<draw>>)]
    /\ UNCHANGED <<inputs, now, pc, runs, draw_data_list, dormant_locals, results, outcome>>

InitPatterns == program = "patterns" /\ stores_data = <<>> /\ InitCommon

NextPatterns == AnalyzeNumberPatterns \/ AnalyzeConsecutiveNumbers

SpecPatterns == InitPatterns /\ [][NextPatterns]_vars

-----------------------------------------------------------------------------
(* The analyze_* methods of LottoStatistics called on a list (SpecAnalyzers) *)

\* the gaps between the sorted numbers of one draw
gaps_in_draw(numbers) ==
    LET sorted == sorted_numbers(numbers)
    IN  [i \in 1..(Len(sorted) - 1) |-> sorted[i + 1] - sorted[i]]

RECURSIVE all_gaps(_)
\* the gaps of all draws, draw by draw, in list order
all_gaps(list) ==
    IF list = <<>> THEN <<>>
    ELSE gaps_in_draw(Head(list).numbers) \o all_gaps(Tail(list))

\* analyze_number_gaps; averages and percentages in hundredths
analyze_number_gaps(list) ==
    LET gaps == all_gaps(list)
        total_gap_count == Len(gaps)
        entry(gap) ==
            [gap |-> gap,
             count |-> Count(gap, gaps),
             percentage |-> IF total_gap_count > 0
                            THEN RoundHundredths(Count(gap, gaps) * 100, total_gap_count)
                            ELSE 0]
        by_gap == Ascending(Range(gaps))
        by_count == Take(most_common(gaps), 5)
        avg_gaps_per_draw ==
            [i \in DOMAIN list |->
                [draw_no |-> list[i].draw_no,
                 avg_gap |-> IF gaps_in_draw(list[i].numbers) # <<>>
                             THEN RoundHundredths(SeqSum(gaps_in_draw(list[i].numbers)),
                                                  Len(gaps_in_draw(list[i].numbers)))
                             ELSE 0]]
        n == Len(avg_gaps_per_draw)
    IN  [gap_distribution |-> [k \in DOMAIN by_gap |-> entry(by_gap[k])],
         most_common_gaps |-> [k \in DOMAIN by_count |-> entry(by_count[k])],
         overall_avg_gap |->
             IF n > 0
             THEN RoundHalfEven(SeqSum([i \in 1..n |-> avg_gaps_per_draw[i].avg_gap]), n)
             ELSE 0,
         recent_avg_gaps |-> IF n >= 10 THEN SubSeq(avg_gaps_per_draw, n - 9, n)
                             ELSE avg_gaps_per_draw]

RECURSIVE dormant_loop(_, _, _)
\* last_appearance and dormant_periods after "for draw_data in sorted_draws"
dormant_loop(sorted, last, periods) ==
    IF sorted = <<>> THEN [last_appearance |-> last, dormant_periods |-> periods]
    ELSE dormant_loop(Tail(sorted),
                      List(step_last_appearance(last, Head(sorted))),
                      List(step_dormant_periods(periods, last, Head(sorted))))

\* analyze_dormant_periods, from the list it is given to the result
analyze_dormant_periods(list) ==
    LET sorted == sort_by_draw_no(list)
        after == dormant_loop(sorted, List([num \in all_numbers |-> 0]),
                              List([num \in all_numbers |-> <<>>]))
    IN  dormant_result(sorted, latest_draw_no_of(sorted), after.last_appearance,
                       after.dormant_periods)

\* the exceptions that leave an analyzer
ZeroDivisionError == [kind |-> "ZeroDivisionError"]

AttributeError == [kind |-> "AttributeError"]

\* the lists of SpecAnalyzers hold at most MaxListLen of the draws of AnalyzerDraws
MaxListLen == 3

\* draws with distinct draw_no, numbers as the provider lists them (not
\* always ascending), with and without winning outlets; draw 5 was won twice
\* at the same outlet
AnalyzerDraws ==
    {CrawledDraw(1, <<32, 1, 20, 2, 16, 4>>, 45, StoreInfo),
     CrawledDraw(2, <<1, 2, 3, 16, 17, 45>>, 4, <<>>),
     CrawledDraw(4, <<45, 44, 32, 16, 3, 1>>, 2, <<[store_id |-> "s4", type |-> MANUAL]>>),
     CrawledDraw(5, <<7, 20, 21, 30, 40, 41>>, 1,
                 <<[store_id |-> "s1", type |-> AUTO], [store_id |-> "s1", type |-> AUTO]>>)}

\* six different numbers of 1..45, ascending, with the given sum (21..255)
numbers_with_sum(total) ==
    LET raise(i, left) == IF left > 39 THEN 39 ELSE IF left > 0 THEN left ELSE 0
        r6 == raise(6, total - 21)
        r5 == raise(5, total - 21 - r6)
        r4 == raise(4, total - 21 - r6 - r5)
        r3 == raise(3, total - 21 - r6 - r5 - r4)
        r2 == raise(2, total - 21 - r6 - r5 - r4 - r3)
        r1 == raise(1, total - 21 - r6 - r5 - r4 - r3 - r2)
    IN  <<1 + r1, 2 + r2, 3 + r3, 4 + r4, 5 + r5, 6 + r6>>

\* draw n of a long history: twelve such draws hold every number of 1..45
RunDraw(n) ==
    CrawledDraw(n, <<n + 33, n, n + 7, n + 14, n + 21, n + 28>>, n + 3, <<>>)

\* the histories of RunDraw of 9 to 12 draws
LongHistoryLengths == 9..12

\* list[::-1]
Reversed(list) == [i \in 1..Len(list) |-> list[Len(list) + 1 - i]]

\* the lists the analyzers are called on: the draws of AnalyzerDraws in every
\* order, one draw of every possible sum, long histories in ascending and
\* descending order, a history with a record loaded without 'numbers', a draw
\* won at an outlet saved without address, and the empty list
AnalyzerLists ==
    UNION {{l \in [1..n -> AnalyzerDraws] :
               \A i, j \in 1..n : i # j => l[i] # l[j]} : n \in 1..MaxListLen}
    \cup {<<CrawledDraw(1, numbers_with_sum(total), 45, <<>>)>> : total \in 21..249}
    \cup {<<CrawledDraw(1, numbers_with_sum(90), 45, <<>>),
            CrawledDraw(2, numbers_with_sum(total), 45, <<>>)>> : total \in {91, 230, 231}}
    \cup {[i \in 1..n |-> RunDraw(i)] : n \in LongHistoryLengths}
    \cup {Reversed([i \in 1..n |-> RunDraw(i)]) : n \in LongHistoryLengths}
    \cup {<<CrawledDraw(1, <<32, 1, 20, 2, 16, 4>>, 45, <<>>),
            CrawledDraw(2, <<>>, 0, <<>>)>>}
    \cup {<<CrawledDraw(1, <<32, 1, 20, 2, 16, 4>>, 45,
                         <<[store_id |-> "s3", type |-> AUTO]>>)>>}
    \cup {<<>>}

\* one call of an analyzer on the list: no statement of an analyzer assigns
\* to the list or to a record of it (sorted() builds new lists)
AnalyzerCall(fn, result) ==
    /\ call' = [fn |-> fn, list |-> draw_data_list, result |-> result]
    /\ draw_data_list' = draw_data_list
    /\ UNCHANGED <<inputs, now, pc, runs, dormant_locals, results, outcome>>

FrequencyCall ==
    /\ program = "analyzers"
    /\ AnalyzerCall("analyze_number_frequency", analyze_number_frequency(draw_data_list))

PatternsCall ==
    /\ program = "analyzers"
    /\ AnalyzerCall("analyze_number_patterns", analyze_number_patterns(draw_data_list))

StoreCall ==
    /\ program = "analyzers"
    /\ AnalyzerCall("analyze_store_statistics",
                 analyze_store_statistics(draw_data_list, stores_data))

ConsecutiveCall ==
    /\ program = "analyzers"
    /\ AnalyzerCall("analyze_consecutive_numbers", analyze_consecutive_numbers(draw_data_list))

GapsCall ==
    /\ program = "analyzers"
    /\ AnalyzerCall("analyze_number_gaps", analyze_number_gaps(draw_data_list))

SumAndAverageCall ==
    /\ program = "analyzers"
    /\ AnalyzerCall("analyze_sum_and_average",
                 IF sum_and_average_raises(draw_data_list) THEN ZeroDivisionError
                 ELSE analyze_sum_and_average(draw_data_list))

DormantCall_SortInPlace ==
    /\ program = "analyzers"
    /\ call' = [fn |-> "analyze_dormant_periods", list |-> draw_data_list,
                result |-> analyze_dormant_periods(draw_data_list)]
    /\ draw_data_list' = sort_by_draw_no(draw_data_list)
    /\ UNCHANGED <<inputs, now, pc, runs, dormant_locals, results, outcome>>
DormantCall ==
    /\ program = "analyzers"
    /\ AnalyzerCall("analyze_dormant_periods", analyze_dormant_periods(draw_data_list))

AutoManualCall ==
    /\ program = "analyzers"
    /\ AnalyzerCall("analyze_auto_manual_ratio", analyze_auto_manual_ratio(draw_data_list))

RegionalCall ==
    /\ program = "analyzers"
    /\ AnalyzerCall("analyze_regional_stats",
                 IF regional_stats_raises(draw_data_list, stores_data) THEN AttributeError
                 ELSE analyze_regional_stats(draw_data_list, stores_data))

\* the caller holds a list of draws and the registry is on disk
InitAnalyzers ==
    /\ program = "analyzers"
    /\ stores_data = Registry
    /\ call = NoValue
    /\ draw_files = <<>>
    /\ now = 0
    /\ pc = "idle"
    /\ runs = 0
    /\ draw_data_list \in AnalyzerLists
    /\ frequency_stats = NoValue
    /\ store_stats = NoValue
    /\ sum_and_avg_stats = NoValue
    /\ sorted_draws = <<>>
    /\ latest_draw_no = 0
    /\ idx = 0
    /\ last_appearance = <<>>
    /\ dormant_periods = <<>>
    /\ dormant_stats = NoValue
    /\ auto_manual_ratio_stats = NoValue
    /\ regional_stats = NoValue
    /\ statistics = NoValue
    /\ previous_statistics = NoValue
    /\ statistics_file = NoValue
    /\ save_returned = NoValue

NextAnalyzers ==
    \/ FrequencyCall
    \/ PatternsCall
    \/ StoreCall
    \/ ConsecutiveCall
    \/ GapsCall
    \/ SumAndAverageCall
    \/ DormantCall
    \/ AutoManualCall
    \/ RegionalCall

SpecAnalyzers == InitAnalyzers /\ [][NextAnalyzers]_vars

-----------------------------------------------------------------------------
(* Properties of the per-draw analysis (SpecCrawler) *)

\* C9: for 6 distinct integers in 1..45 the ac_value of
\* _analyze_number_properties, the number of distinct absolute pairwise
\* differences minus 5, is an integer with 0 <= ac_value <= 10.
AcValueRange ==
    (call # NoValue /\ call.fn = "_analyze_number_properties") =>
        /\ call.result.ac_value \in 0..10
        /\ call.result.ac_value + 5 =
               Cardinality({d \in 1..44 :
                               \E i, j \in DOMAIN call.numbers :
                                   call.numbers[i] - call.numbers[j] = d})

\* the call was made for numbers whose 15 differences are all distinct
AcValueRangeWitness ==
    /\ call # NoValue
    /\ call.fn = "_analyze_number_properties"
    /\ Cardinality(Range(call.numbers)) = 6
    /\ call.result.ac_value = 10

\* the tax rule for one call: P is the first prize per winner
TaxRuleFor(P, taxable, tax, net) ==
    /\ taxable.hi = P.hi - 1 /\ taxable.lo = P.lo
    /\ tax % 10 = 0
    /\ IF taxable.hi < 300000 \/ (taxable.hi = 300000 /\ taxable.lo = 0)
       THEN LET d == tax - 220 * taxable.hi
            IN  100 * d <= 22 * taxable.lo /\ 22 * taxable.lo < 100 * (d + 10)
       ELSE LET d == tax - 66000000 - 330 * (taxable.hi - 300000)
            IN  100 * d <= 33 * taxable.lo /\ 33 * taxable.lo < 100 * (d + 10)
    /\ net.lo \in 0..999
    /\ (net.lo + (tax % 1000)) % 1000 = P.lo
    /\ net.hi + (tax \div 1000) + ((net.lo + (tax % 1000)) \div 1000) = P.hi
    /\ (taxable.hi = 300000 /\ taxable.lo = 0) =>
           tax = 22 * 3000000 /\ tax = 66000000 + 33 * 0
    /\ P = Won(2357299, 875) =>
           taxable = Won(2357298, 875) /\ tax = 744908620 /\ net = Won(1612391, 255)

\* C10: for a first prize per winner P > 0, with taxable = P - 1000, the tax
\* is 22% of taxable when taxable <= 300,000,000 and 66,000,000 + 33% of
\* (taxable - 300,000,000) otherwise, truncated down to a multiple of 10, and
\* tax_adjusted_prize = P - tax; P = 2,357,299,875 gives taxable
\* 2,357,298,875, tax 744,908,620 and 1,612,391,255; the two brackets agree
\* at taxable = 300,000,000.
TaxRule ==
    (/\ call # NoValue
     /\ call.fn = "_analyze_winner_insight"
     /\ call.result # TypeError
     /\ Positive(call.locals.first_prize_amt))
        => TaxRuleFor(call.locals.first_prize_amt, call.locals.taxable_amt,
                          call.locals.tax, call.result.tax_adjusted_prize)

\* the call was made for the prize 2,357,299,875, listed after another rank
TaxRuleWitness ==
    /\ call # NoValue
    /\ call.fn = "_analyze_winner_insight"
    /\ Len(call.prize_info) = 2
    /\ call.locals.first_prize_amt = Won(2357299, 875)
    /\ call.result.tax_adjusted_prize = Won(1612391, 255)

\* an amount that is missing, no number, zero or negative
unusable_amount(x) == x = None \/ x = NotANumber \/ ~Positive(x)

\* prize_info with every 'total_prize' that does not parse replaced by one
\* that does
repaired(prize_info) ==
    [i \in DOMAIN prize_info |->
        IF has_total_prize(prize_info[i]) /\ prize_info[i].total_prize \in {None, NotANumber}
        THEN [prize_info[i] EXCEPT !.total_prize = Won(1, 500)]
        ELSE prize_info[i]]

\* C11: total_payout_rate is 0, and no exception escapes, whenever
\* total_sales is missing, zero, negative or no integer string, or a tier
\* amount used in the sum does not parse; winner_method_rate and
\* tax_adjusted_prize are then what they are for the same call with a usable
\* total_sales and parsable total_prize amounts.
PayoutFailureIsolated ==
    (call # NoValue /\ call.fn = "_analyze_winner_insight") =>
        LET failed ==
                \/ unusable_amount(call.total_sales)
                \/ \E i \in DOMAIN call.prize_info :
                       IF call.prize_info[i].total_prize # NoValue
                       THEN call.prize_info[i].total_prize \in {None, NotANumber}
                       ELSE \/ call.prize_info[i].winner_count \in {None, NotANumber}
                            \/ call.prize_info[i].prize_per_winner \in {None, NotANumber}
            sound == analyze_winner_insight(call.store_info, repaired(call.prize_info),
                                            Won(2, 0))
        IN  failed =>
                /\ call.result.total_payout_rate = 0
                /\ call.result.winner_method_rate = sound.winner_method_rate
                /\ call.result.tax_adjusted_prize = sound.tax_adjusted_prize

\* a call whose total_sales is no number and whose first total_prize does
\* not parse, with winners and a taxed first prize
PayoutFailureIsolatedWitness ==
    /\ call # NoValue
    /\ call.fn = "_analyze_winner_insight"
    /\ call.total_sales = NotANumber
    /\ call.prize_info[1].total_prize = NotANumber
    /\ call.result.total_payout_rate = 0
    /\ call.result.winner_method_rate.auto > 0
    /\ call.result.tax_adjusted_prize = Won(1612391, 255)

-----------------------------------------------------------------------------
(* Properties of the ranked frequency views (Spec) *)

\* a view is in non-increasing order of key, and two entries with equal key
\* are in ascending order of number
ranked(view, key(_)) ==
    \A i, j \in DOMAIN view :
        i < j => \/ key(view[i]) > key(view[j])
                 \/ key(view[i]) = key(view[j]) /\ view[i].number < view[j].number

\* C12 as the specification states it: each of the three ranked views is in
\* non-increasing order of its own key with equal keys in ascending number
\* order, and most_frequent_numbers / least_frequent_numbers are the first 5
\* and the last 5 entries of the by-total view.
RankedViewsTiesAscending ==
    frequency_stats # NoValue =>
        LET by_total == frequency_stats.all_numbers_frequency
        IN  /\ ranked(by_total, LAMBDA e : e.frequency)
            /\ ranked(frequency_stats.regular_frequency, LAMBDA e : e.regular_frequency)
            /\ ranked(frequency_stats.bonus_frequency, LAMBDA e : e.bonus_frequency)
            /\ frequency_stats.most_frequent_numbers = SubSeq(by_total, 1, 5)
            /\ frequency_stats.least_frequent_numbers = SubSeq(by_total, 41, 45)

-----------------------------------------------------------------------------
(* Properties of the per-draw patterns (SpecCrawler, SpecPatterns) *)

\* the history of the scenario draw: numbers [1,2,4,16,20,32], bonus 45
ScenarioHistory == <<CrawledDraw(1, ScenarioNumbers, 45, <<>>)>>

\* C13 as the specification states it: for the draw [1,2,4,16,20,32] with
\* bonus 45 the sum is 75, the odd:even pattern "2:4" and the low:high
\* pattern "4:2".
ScenarioPatternsAsStated ==
    (call # NoValue /\ call.fn = "_analyze_number_properties"
        /\ call.numbers = ScenarioNumbers) =>
        /\ call.result.sum_total = 75
        /\ call.result.odd_even_pattern = <<2, 4>>
        /\ call.result.high_low_pattern = <<4, 2>>
        /\ analyze_number_patterns(ScenarioHistory).odd_even_ratios[1].ratio = <<2, 4>>

\* C13, amended: for the draw [1,2,4,16,20,32] the sum is 75, the odd:even
\* pattern is "1:5" (1 is the only odd number) and the low:high pattern is
\* "5:1" (32 is the only number above 22), in _analyze_number_properties;
\* analyze_number_patterns reports the same odd:even ratio "1:5".
ScenarioPatterns ==
    (call # NoValue /\ call.fn = "_analyze_number_properties"
        /\ call.numbers = ScenarioNumbers) =>
        /\ call.result.sum_total = 75
        /\ call.result.odd_even_pattern = <<1, 5>>
        /\ call.result.high_low_pattern = <<5, 1>>
        /\ analyze_number_patterns(ScenarioHistory).odd_even_ratios[1].ratio = <<1, 5>>

\* _analyze_number_properties was called for the scenario draw
ScenarioPatternsWitness ==
    /\ call # NoValue
    /\ call.fn = "_analyze_number_properties"
    /\ call.numbers = <<1, 2, 4, 16, 20, 32>>
    /\ call.result.sum_total = 75

\* C14: the section distribution uses the bins 1-10, 11-20, 21-30, 31-40 and
\* 41-45: the 'ranges' of analyze_number_patterns and the section_counts of
\* _analyze_range_and_sequence count every number of a draw in the same bin,
\* and the five counts of either sum to 6.
SectionBinsAgree ==
    (call # NoValue /\ call.fn = "analyze_number_patterns") =>
        LET ranges == call.result.range_distributions[1].ranges
            section_counts == analyze_range_and_sequence(call.numbers).section_counts
        IN  /\ \A i \in DOMAIN call.numbers :
                  /\ range_index_of(call.numbers[i]) \in 1..5
                  /\ SECTIONS[range_index_of(call.numbers[i])] = section_of(call.numbers[i])
            /\ \A k \in 1..5 : ranges[k] = section_counts[SECTIONS[k]]
            /\ SeqSum(ranges) = 6
            /\ SeqSum([k \in 1..5 |-> section_counts[SECTIONS[k]]]) = 6

\* the number of adjacent pairs of the ascending numbers that differ by 1
adjacent_pairs_in_a_row(S) ==
    Cardinality({n \in S : n + 1 \in S})

\* the consecutive-pair count a call of SpecPatterns reported for its draw
reported_consecutive_count ==
    IF call.fn = "analyze_number_patterns"
    THEN call.result.consecutive_stats.patterns[1].consecutive_count
    ELSE Len(call.result.top_consecutive_pairs)

\* C15: for every draw, in any order of its 6 numbers, the consecutive-pair
\* count is the number of adjacent pairs of the sorted numbers that differ by
\* exactly 1: analyze_number_patterns, analyze_consecutive_numbers and
\* _analyze_range_and_sequence give that same count, whatever the order.
ConsecutiveCountAgrees ==
    call # NoValue =>
        LET expected == adjacent_pairs_in_a_row(Range(call.numbers))
        IN  /\ reported_consecutive_count = expected
            /\ consecutive_count_of(call.numbers) = expected
            /\ Len(consecutive_pairs_in_draw(call.numbers)) = expected
            /\ analyze_range_and_sequence(call.numbers).consecutive_sets = expected
            /\ analyze_consecutive_numbers(ScenarioHistory).draws_with_consecutive = 1
            /\ (call.fn = "analyze_consecutive_numbers" =>
                   /\ call.result.draws_with_consecutive = (IF expected >= 1 THEN 1 ELSE 0)
                   /\ call.result.draws_with_multiple_consecutive =
                         (IF expected >= 2 THEN 1 ELSE 0))

\* a draw with two pairs in a row, given in descending order, was analysed
ConsecutiveCountAgreesWitness ==
    /\ call # NoValue
    /\ call.fn = "analyze_consecutive_numbers"
    /\ call.numbers = <<9, 7, 6, 4, 2, 1>>
    /\ Len(call.result.top_consecutive_pairs) = 2

-----------------------------------------------------------------------------
(* Properties of the purchase-method rates (SpecCrawler) *)

\* the winners of a first_prize_store_info whose type is exactly the tag
tagged(store_info, tag) ==
    {i \in DOMAIN store_info :
        "type" \in DOMAIN store_info[i] /\ store_info[i].type = tag}

\* C16: the purchase-method rates of a draw count each winner by exact match
\* of its type tag: a semi-auto winner counts as semi only, never as auto;
\* the auto, manual and semi counts are disjoint and sum to at most the
\* number of winners, a winner with any other tag counting in none; all
\* three rates are 0 when there are no winners.
MethodRatesExactMatch ==
    (call # NoValue /\ call.fn = "_analyze_winner_insight") =>
        LET winners == Len(call.store_info)
            count(tag) == Cardinality(tagged(call.store_info, tag))
            rate(tag) == IF winners > 0 THEN RoundTenths(count(tag) * 100, winners) ELSE 0
        IN  /\ call.result # TypeError
            /\ call.result.winner_method_rate =
                  [auto |-> rate(AUTO), manual |-> rate(MANUAL), semi |-> rate(SEMI)]
            /\ count(AUTO) + count(MANUAL) + count(SEMI) <= winners
            /\ tagged(call.store_info, AUTO) \cap tagged(call.store_info, SEMI) = {}
            /\ winners = 0 =>
                  call.result.winner_method_rate = [auto |-> 0, manual |-> 0, semi |-> 0]

-----------------------------------------------------------------------------
(* Properties of the region rankings (SpecAssembler) *)

\* the percentage, in hundredths of a percent, of a count in a sum of counts
share_of(count, sum) == IF sum > 0 THEN RoundHundredths(count * 100, sum) ELSE 0

\* C17: in every region ranking the percentage of a region is its count
\* divided by the sum of all regional counts (0 if that sum is 0), so the
\* exact percentages of the listed regions sum to 100 when a win was
\* attributed: in region_stats of analyze_store_statistics and of
\* analyze_regional_stats, also when some winning ids are not in the registry.
RegionPercentagesOfAttributedWins ==
    regional_stats # NoValue =>
        LET by_store == store_stats.region_stats
            by_region == regional_stats.region_stats
            counted == SeqSum([i \in DOMAIN by_store |-> by_store[i].count])
            wins == SeqSum([i \in DOMAIN by_region |-> by_region[i].wins])
        IN  /\ \A i \in DOMAIN by_store :
                  by_store[i].percentage = share_of(by_store[i].count, counted)
            /\ \A i \in DOMAIN by_region :
                  by_region[i].percentage = share_of(by_region[i].wins, wins)

\* the wins of a region in a region ranking, 0 if the region is not listed
wins_of(region_stats, region) ==
    SeqSum([i \in DOMAIN region_stats |->
               IF region_stats[i].region = region THEN region_stats[i].wins ELSE 0])

\* the region an address is counted in by the rule of the specification
first_prefix_region(address) ==
    IF \E i \in DOMAIN REGIONS : startswith(address, REGIONS[i])
    THEN REGIONS[CHOOSE i \in DOMAIN REGIONS :
                    /\ startswith(address, REGIONS[i])
                    /\ \A j \in 1..(i - 1) : ~startswith(address, REGIONS[j])]
    ELSE ETC

\* C18: in analyze_regional_stats every winning entry whose outlet id is in
\* the registry increments exactly one of the 18 region counters, that of the
\* first region of the declared list that is a prefix of the address or of
\* 'other' when none is; so the counters sum to the number of resolved
\* entries and total_wins is that number plus the unresolved entries.
ResolvedWinCountedInOneRegion ==
    (program = "lotto" /\ auto_manual_ratio_stats # NoValue /\ pc # "regional") =>
        /\ regional_stats # NoValue
        /\ \A i \in DOMAIN REGIONS :
              wins_of(regional_stats.region_stats, REGIONS[i]) =
                  Cardinality({k \in DOMAIN registered_ids :
                      first_prefix_region(stores_data[registered_ids[k]].address)
                          = REGIONS[i]})
        /\ SeqSum([i \in DOMAIN regional_stats.region_stats |->
                      regional_stats.region_stats[i].wins]) = Len(registered_ids)
        /\ regional_stats.total_wins = Len(registered_ids) + Len(unresolved_ids)

-----------------------------------------------------------------------------
(* Properties of the crawler's requests (SpecCrawler) *)

\* C19: get_latest_draw_number returns the largest draw number (ltEpsd) of
\* the entries of the provider's list, not that of the first entry: for a
\* list holding the draws 1 and 1200 in that order it returns 1200.
LatestDrawNumberIsLargest ==
    (/\ call # NoValue
     /\ call.fn = "get_latest_draw_number"
     /\ call.response.has_data
     /\ call.response.list # <<>>) =>
        LET list == call.response.list
        IN  /\ \A i \in DOMAIN list : call.result.value >= ltEpsd_of(list[i])
            /\ \E i \in DOMAIN list : call.result.value = ltEpsd_of(list[i])
            /\ (Len(list) = 2 /\ ltEpsd_of(list[1]) = 1 /\ ltEpsd_of(list[2]) = 1200)
                  => call.result = Some(1200)

\* the entries of a response list with the given rank, in response order
of_rank(list, rank) == SelectSeq(list, LAMBDA store : store.wnShpRnk = rank)

\* C20: first_prize_store_info holds exactly the outlets of rank 1 of the
\* response, in response order, each with its store id and its
\* purchase-method tag; an outlet of rank 2 is saved to the registry and is
\* not in first_prize_store_info; an outlet of another rank is neither
\* saved nor returned.
FirstPrizeStoreInfoIsRankOne ==
    (call # NoValue /\ call.fn = "get_store_info") =>
        LET list == call.response.list
            first == of_rank(list, 1)
            ids(rank) == {list[i].ltShpId : i \in {j \in DOMAIN list : list[j].wnShpRnk = rank}}
        IN  /\ Len(call.result) = Len(first)
            /\ \A i \in DOMAIN first :
                  /\ call.result[i].store_id = first[i].ltShpId
                  /\ call.result[i].type =
                        (IF "atmtPsvYnTxt" \in DOMAIN first[i]
                         THEN first[i].atmtPsvYnTxt ELSE EMPTY_TYPE)
            /\ DOMAIN stores_data = ids(1) \cup ids(2)
            /\ \A id \in ids(2) :
                  /\ call.draw_no \in Range(stores_data[id].second_prize_draws)
                  /\ (id \notin ids(1) =>
                         \A i \in DOMAIN call.result : call.result[i].store_id # id)
            /\ \A id \in ids(1) : call.draw_no \in Range(stores_data[id].first_prize_draws)
            /\ \A id \in ids(3) \ (ids(1) \cup ids(2)) :
                  /\ id \notin DOMAIN stores_data
                  /\ \A i \in DOMAIN call.result : call.result[i].store_id # id

\* a response with outlets of rank 2, 1 and 3, in that order, was processed
FirstPrizeStoreInfoIsRankOneWitness ==
    /\ call # NoValue
    /\ call.fn = "get_store_info"
    /\ Len(call.response.list) = 3
    /\ call.response.list[1].wnShpRnk = 2 /\ call.response.list[1].ltShpId = "s1"
    /\ call.response.list[2].wnShpRnk = 1 /\ call.response.list[2].ltShpId = "s3"
    /\ call.response.list[3].wnShpRnk = 3 /\ call.response.list[3].ltShpId = "s2"
    /\ call.result = <<[store_id |-> "s3", type |-> EMPTY_TYPE]>>
    /\ DOMAIN stores_data = {"s1", "s3"}

-----------------------------------------------------------------------------
(* Properties of the analyzers called on a list (SpecAnalyzers) *)

same_draws(a, b) ==
    /\ Len(a) = Len(b)
    /\ {a[i] : i \in DOMAIN a} = {b[i] : i \in DOMAIN b}

\* the four parts of the dormancy result
dormant_parts(result) ==
    <<result.overall_stats, result.top_dormant_current, result.top_dormant_avg,
      result.not_in_recent_10>>

\* C22: analyze_dormant_periods processes the draws in ascending draw_no
\* whatever the order of the list: on every permutation of the same draws
\* (distinct draw_no) it returns the same overall_stats, top_dormant_current,
\* top_dormant_avg and not_in_recent_10.
DormantOrderIndependent ==
    (program = "analyzers" /\ call # NoValue /\ call.fn = "analyze_dormant_periods")
    => \A other \in AnalyzerLists :
           same_draws(other, call.list)
           => dormant_parts(analyze_dormant_periods(other)) = dormant_parts(call.result)

\* the analyzer has run on three draws given newest first, which have five
\* other orders, and a number of the oldest draw came up again later
DormantOrderIndependentWitness ==
    /\ program = "analyzers"
    /\ call # NoValue
    /\ call.fn = "analyze_dormant_periods"
    /\ Len(call.list) = 3
    /\ call.list[1].draw_no > call.list[2].draw_no
    /\ call.list[2].draw_no > call.list[3].draw_no
    /\ Cardinality({other \in AnalyzerLists : same_draws(other, call.list)}) = 6
    /\ \E k \in 1..45 : call.result.overall_stats[k].max_dormant > 0

\* the draws of a list that are among its min(10, N) newest by draw_no
newest_ten(list) ==
    {i \in DOMAIN list :
        Cardinality({j \in DOMAIN list : list[j].draw_no > list[i].draw_no}) < 10}

\* the numbers that none of the newest draws holds
absent_from_newest(list) ==
    {n \in 1..45 : \A i \in newest_ten(list) : ~InList(n, list[i].numbers)}

\* C23: not_in_recent_10 is the ascending list of exactly the numbers of 1..45
\* that appear in none of the last min(10, N) draws by draw_no, and
\* top_dormant_current holds 10 entries of different numbers, those with the
\* largest current_dormant, in non-increasing order: no number outside it has
\* a larger current_dormant than one inside it.
RecentAndTopDormant ==
    (program = "analyzers" /\ call # NoValue /\ call.fn = "analyze_dormant_periods")
    => LET absent == call.result.not_in_recent_10
           top == call.result.top_dormant_current
           stats == call.result.overall_stats
           inside == {top[i].number : i \in DOMAIN top}
       IN  /\ \A i \in 1..(Len(absent) - 1) : absent[i] < absent[i + 1]
           /\ {absent[i] : i \in DOMAIN absent} = absent_from_newest(call.list)
           /\ Len(top) = 10
           /\ Cardinality(inside) = 10
           /\ \A i \in DOMAIN top : \E k \in DOMAIN stats : stats[k] = top[i]
           /\ \A i \in 1..9 : top[i].current_dormant >= top[i + 1].current_dormant
           /\ \A k \in DOMAIN stats :
                  stats[k].number \notin inside
                  => \A i \in DOMAIN top :
                         stats[k].current_dormant <= top[i].current_dormant

\* a history of more than 10 draws: a number drawn only before the last 10
\* draws is reported absent, and the top 10 hold different dormancies
RecentAndTopDormantWitness ==
    /\ program = "analyzers"
    /\ call # NoValue
    /\ call.fn = "analyze_dormant_periods"
    /\ Len(call.list) > 10
    /\ \E i \in DOMAIN call.list :
           \E j \in DOMAIN call.list[i].numbers :
               InList(call.list[i].numbers[j], call.result.not_in_recent_10)
    /\ call.result.top_dormant_current[1].current_dormant
           > call.result.top_dormant_current[10].current_dormant

\* whether a sum lies in the k-th of the nine buckets, the ninth being 'other'
in_bucket(numbers_sum, k) ==
    IF k = 9 THEN numbers_sum < 70 \/ numbers_sum > 230
    ELSE /\ numbers_sum >= (IF k = 1 THEN 70 ELSE 71 + 20 * (k - 1))
         /\ numbers_sum <= 90 + 20 * (k - 1)

\* the draws of a list whose sum lies in the k-th bucket
draws_in_bucket(list, k) ==
    {i \in DOMAIN list : in_bucket(SeqSum(list[i].numbers), k)}

\* C24: in analyze_sum_and_average every draw's sum falls in exactly one of
\* the nine buckets, sums below 70 or above 230 in 'other'; the bucket counts
\* are the numbers of draws in the buckets and sum to N; sum_distribution lists
\* a bucket if and only if its count is greater than 0; min_sum <= max_sum, and
\* both are 0 when there are no draws.
SumBuckets ==
    (/\ program = "analyzers"
     /\ call # NoValue
     /\ call.fn = "analyze_sum_and_average"
     /\ call.result # ZeroDivisionError)
    => LET list == call.list
           listed == call.result.sum_distribution
           entries(k) == {e \in DOMAIN listed : listed[e].range = SUM_RANGES[k]}
       IN  /\ \A i \in DOMAIN list :
                  Cardinality({k \in 1..9 : i \in draws_in_bucket(list, k)}) = 1
           /\ \A k \in 1..9 :
                  /\ Cardinality(entries(k)) = (IF draws_in_bucket(list, k) # {} THEN 1 ELSE 0)
                  /\ \A e \in entries(k) :
                         listed[e].count = Cardinality(draws_in_bucket(list, k))
           /\ \A e \in DOMAIN listed :
                  listed[e].count > 0 /\ \E k \in 1..9 : e \in entries(k)
           /\ SeqSum([e \in DOMAIN listed |-> listed[e].count]) = Len(list)
           /\ call.result.min_sum <= call.result.max_sum
           /\ list = <<>> => (call.result.min_sum = 0 /\ call.result.max_sum = 0)

\* two draws, one with a sum of 90 and one with a sum of 231: two buckets
\* are listed, one of them 'other'
SumBucketsWitness ==
    /\ program = "analyzers"
    /\ call # NoValue
    /\ call.fn = "analyze_sum_and_average"
    /\ call.result # ZeroDivisionError
    /\ Len(call.list) = 2
    /\ Len(call.result.sum_distribution) = 2
    /\ call.result.sum_distribution[1].range = "70-90"
    /\ call.result.sum_distribution[2].range = SUM_RANGES[9]
    /\ call.result.min_sum = 90
    /\ call.result.max_sum = 231

\* the draws of a list whose numbers contain n
draws_containing(list, n) == {i \in DOMAIN list : InList(n, list[i].numbers)}

\* regular_frequency of n in the all_numbers_frequency of the frequency analyzer
reported_regular_frequency(all, n) ==
    all[CHOOSE k \in DOMAIN all : all[k].number = n].regular_frequency

\* C25: for every history with distinct positive draw_no and every n in 1..45
\* the appearance_count of n in the dormancy result is the number of draws
\* whose numbers contain n, and equals the regular_frequency of n that the
\* frequency analyzer reports on the same history.
AppearanceCountIsRegularFrequency ==
    (program = "analyzers" /\ call # NoValue /\ call.fn = "analyze_dormant_periods")
    => LET all == List(analyze_number_frequency(call.list).all_numbers_frequency)
       IN  \A n \in 1..45 :
               /\ call.result.overall_stats[n].number = n
               /\ call.result.overall_stats[n].appearance_count
                      = Cardinality(draws_containing(call.list, n))
               /\ call.result.overall_stats[n].appearance_count
                      = reported_regular_frequency(all, n)

\* a number was drawn in three draws, two of them in a row, and another
\* number in none
AppearanceCountIsRegularFrequencyWitness ==
    /\ program = "analyzers"
    /\ call # NoValue
    /\ call.fn = "analyze_dormant_periods"
    /\ \E n \in 1..45 :
           /\ call.result.overall_stats[n].appearance_count = 3
           /\ \E i, j \in draws_containing(call.list, n) :
                  call.list[i].draw_no = call.list[j].draw_no + 1
    /\ \E n \in 1..45 : call.result.overall_stats[n].appearance_count = 0

-----------------------------------------------------------------------------
(* Further properties of the per-draw analysis and of the crawler *)

\* a <= b for two amounts
NoMoreThan(a, b) == a.hi < b.hi \/ (a.hi = b.hi /\ a.lo <= b.lo)

\* C26: for every first prize per winner P > 0, also one smaller than the
\* ticket cost of 1000, the tax withheld is not negative and
\* 0 < tax_adjusted_prize <= P.
TaxNeverRaisesPrize ==
    (/\ program = "crawler"
     /\ call # NoValue
     /\ call.fn = "_analyze_winner_insight"
     /\ call.result # TypeError
     /\ Positive(call.locals.first_prize_amt))
    => /\ call.locals.tax >= 0
       /\ Positive(call.result.tax_adjusted_prize)
       /\ NoMoreThan(call.result.tax_adjusted_prize, call.locals.first_prize_amt)

\* the resolved winning entries of a store that are counted in a region
entries_of_store(list, stores, store_id, region) ==
    {e \in DOMAIN resolved_wins(list, stores) :
        /\ resolved_wins(list, stores)[e].store_id = store_id
        /\ region_of(stores[store_id].address) = region}

\* C27: in top_stores_by_region the 'wins' of a store is the number of
\* resolved winning entries of that store counted in the region, also when the
\* store is listed more than once among the outlets of one draw; so for a
\* region with at most 5 winning stores the wins of its stores sum to the
\* 'wins' of the region in region_stats.
StoreWinsCountEntries ==
    (/\ program = "analyzers"
     /\ call # NoValue
     /\ call.fn = "analyze_regional_stats"
     /\ call.result # AttributeError)
    => \A r \in DOMAIN call.result.top_stores_by_region :
           LET top == call.result.top_stores_by_region[r]
           IN  /\ \A k \in DOMAIN top :
                      top[k].wins = Cardinality(entries_of_store(call.list, stores_data,
                                                                 top[k].store_id, REGIONS[r]))
               /\ SeqSum([k \in DOMAIN top |-> top[k].wins])
                      = wins_of(call.result.region_stats, REGIONS[r])

\* no draw twice, and in descending order
strictly_descending(draws) ==
    \A i \in 1..(Len(draws) - 1) : draws[i] > draws[i + 1]

\* C28: after any sequence of save_single_store_info calls that starts with
\* no file of the store, first_prize_draws and second_prize_draws hold no draw
\* twice and are in descending order, first_prize_count and second_prize_count
\* are their lengths, and a call repeated with the same store, draw and rank
\* changes neither the lists nor the counts.
StoreHistoryWellFormed ==
    (program = "stores" /\ call # NoValue)
    => /\ \A id \in DOMAIN stores_data :
              "first_prize_draws" \in DOMAIN stores_data[id]
              => /\ strictly_descending(stores_data[id].first_prize_draws)
                 /\ strictly_descending(stores_data[id].second_prize_draws)
                 /\ stores_data[id].first_prize_count
                        = Len(stores_data[id].first_prize_draws)
                 /\ stores_data[id].second_prize_count
                        = Len(stores_data[id].second_prize_draws)
       /\ save_single_store_info(stores_data, call.store, call.draw_no) = stores_data

\* an outlet was saved for a later draw after an earlier one, both of rank 1,
\* and once for rank 2, and the last call repeated an earlier one
StoreHistoryWellFormedWitness ==
    /\ program = "stores"
    /\ call # NoValue
    /\ call.store.ltShpId = "s1"
    /\ call.store.wnShpRnk = 1
    /\ call.draw_no = 2
    /\ call.before = stores_data
    /\ stores_data["s1"].first_prize_draws = <<2, 1>>
    /\ stores_data["s1"].second_prize_draws = <<2>>
    /\ stores_data["s1"].first_prize_count = 2

\* the positions of the requests among the events of a call
requests_of(events) == {i \in DOMAIN events : events[i] # "sleep"}

-----------------------------------------------------------------------------
(* The exit code of the statistics scripts (SpecAssembler) *)

\* C30: main() of analyze_statistics and of pension_statistics returns 0 if
\* and only if generate_statistics produced a report and save_statistics wrote
\* it, and 1 when the history is empty, when generation raises or when saving
\* fails.
ExitCodeReportsSavedReport ==
    (call # NoValue /\ call.fn = "main" /\ call.run = runs)
    => /\ call.result \in {0, 1}
       /\ call.result = 0
          <=> (pc = "saved" /\ statistics # None /\ save_returned = TRUE)


====
